---- MODULE Spec2Model ----
(***************************************************************************)
(* AMV toolkit: the persisted configuration (amv/config.py), the model     *)
(* selector (amv/models.py), the setup screen's switch planner and install *)
(* worker (amv/screens/setup.py, amv/gpu.py) and the separation job's      *)
(* final renaming (amv/separator.py).                                      *)
(*                                                                         *)
(* Python values are encoded with one record shape per level, so that any  *)
(* two of them can be compared:                                            *)
(*   item   [t, n, s]      an element of a JSON list                       *)
(*   value  [t, n, s, l]   the value stored under a key of the config      *)
(*   config [kind, recent_files, max_recent, force_cpu, setup_type,        *)
(*           enabled]      a parsed JSON document / an in-memory dict      *)
(* t is the Python type ("absent" = the key is not in the dict), n the     *)
(* number of an int or bool, s the characters of a str, l the items of a   *)
(* list.  A str is the sequence of its characters, so that strip() and     *)
(* lower() are computed, not assumed.                                      *)
(***************************************************************************)
EXTENDS Integers, Sequences, FiniteSets, TLC

VARIABLES
    disk,            \* config.json: [st |-> "missing" | "corrupt" | "ok", json |-> config]
    DEFAULT_recent,  \* the list object held by DEFAULT_CONFIG["recent_files"]
    cfg_in,          \* the argument handed to _normalize_config / save_config
    cfg_op,          \* the last config operation that ran
    cfg_ret,         \* what that operation returned
    cfg_writes,      \* the records that operation wrote to config.json, in order
    cfg_path,        \* the path handed to add_recent_file, when that was the operation
    disk_before      \* config.json as it was when that operation started

configVars == <<disk, DEFAULT_recent, cfg_in, cfg_op, cfg_ret, cfg_writes, cfg_path,
               disk_before>>

VARIABLES
    hw_info,         \* the capability descriptor handed to the model selector
    sel_pc,          \* "idle" | "selected"
    sel_model,       \* the model get_active_model chose
    sel_settings     \* the settings get_model_settings returned for it

selectVars == <<hw_info, sel_pc, sel_model, sel_settings>>

VARIABLES
    target_mode,     \* SetupScreen.target_mode: "gpu" | "cpu" | "none" (auto)
    env,             \* what the probes find on the machine
    CACHE,           \* hardware._CACHE
    scr,             \* the panel the setup screen shows
    results,         \* the dict _run_initial_checks hands to _apply_results
    issues,          \* SetupScreen.issues
    installs,        \* SetupScreen.installs
    is_installing,   \* SetupScreen.is_installing
    w_pc,            \* position of _install_worker
    w_i,             \* its loop index i (0-based)
    errors,          \* its local list errors
    cancelled,       \* worker.is_cancelled
    launched,        \* history: 1-based index of every subprocess.run started
    outcomes,        \* history: how each started subprocess ended
    observed_at,     \* history: 1-based step before which cancellation was seen, 0 if none
    run_disk0,       \* history: the config file when the install run started
    run_writes,      \* history: writes of the config file since the run started
    complete_calls   \* history: invocations of _install_complete

installVars == <<target_mode, env, CACHE, scr, results, issues, installs, is_installing,
                 w_pc, w_i, errors, cancelled, launched, outcomes, observed_at,
                 run_disk0, run_writes, complete_calls>>

VARIABLES
    sep_input,       \* run_separation: the input file's name
    duration,        \* length of the input audio in ms (original_duration_ms once read)
    PYDUB_OK,        \* whether pydub could be imported
    padded,          \* is_padded: a padded temp file was made and is the processing input
    fs,              \* the files of the input directory: name, content, length in ms
    sep_pc,          \* position of run_separation
    output_files,    \* what separator.separate returned
    sep_j,           \* index of the next output file of the rename loop
    generated_files, \* its local list generated_files
    sep_result,      \* what run_separation returned: "none" | "true" | "false"
    finalized,       \* history: each rename's source, wanted name, chosen name, names present
    fs_before,       \* history: the directory when run_separation was called
    accel,           \* accelerator memory of the runtime: "free" | "held"
    ui_report,       \* what _separation_worker showed: "none" | "success" | "error"
    phases,          \* history: the parts of run_separation entered so far
    events,          \* history: the progress_callback calls, stage and percent
    last_percent,    \* TqdmCapture.last_percent
    writes,          \* history: number of tqdm lines written to the captured stderr
    loaded_model,    \* the model_filename given to separator.load_model
    run_settings     \* the fp16 and batch_size the Separator was configured with

separationVars == <<sep_input, duration, PYDUB_OK, padded, fs, sep_pc, output_files, sep_j,
                    generated_files, sep_result, finalized, fs_before, accel, ui_report,
                    phases, events, last_percent, writes, loaded_model, run_settings>>

VARIABLES
    download_mode,     \* YouTubeScreen.download_mode: "audio" | "video"
    dl_pc,             \* position of _download_worker
    destination_count, \* its local destination_count
    download_title,    \* its local download_title
    line_count,        \* its local line_count
    buf,               \* its local buf: what was read since the last delimiter
    stream,            \* history: everything read from the process so far
    processed,         \* history: the buffers that were taken as lines, in order
    bars,              \* history: every _set_bar call, with the count it was routed by
    dl_shown           \* what the worker showed at the end: "none" | "success" | "error"

downloadVars == <<download_mode, dl_pc, destination_count, download_title, line_count, buf,
                  stream, processed, bars,
                  dl_shown>>

VARIABLES
    p_pc,            \* per thread: position inside a hardware.py call
    p_op,            \* per thread: the call it is in
    p_calls,         \* per thread: calls started so far
    p_ret,           \* per thread: what its last call returned
    p_new,           \* per thread: what its detection in progress found
    p_first,         \* per thread: the first field a two-field reader has read
    detections,      \* history: detections run since the cache was last invalidated
    p_seen,          \* history: descriptors returned since the cache was last invalidated
    p_found,         \* history: every detection run, its inputs and what it found
    p_views          \* history: every answer of get_suggested_setup

probeVars == <<p_pc, p_op, p_calls, p_ret, p_new, p_first, detections, p_seen, p_found,
               p_views>>

VARIABLES
    capture,         \* a TqdmCapture object: callback installed, last_percent, the
                     \* text its original_stderr received, the callback calls made
    cap_written      \* history: the texts given to its write(), in order

captureVars == <<capture, cap_written>>

vars == <<configVars, selectVars, installVars, separationVars, downloadVars, probeVars, captureVars>>

nonConfigVars == <<selectVars, installVars, separationVars, downloadVars, probeVars, captureVars>>
nonSelectVars == <<configVars, installVars, separationVars, downloadVars, probeVars, captureVars>>

\* ------------------------------------------------------------------ bounds
MaxRecentLen == 2        \* longest recent_files list drawn as an input
MaxSuffix == 2           \* highest " (n)" among the files already in the directory
MaxBytes == 6            \* reads from the yt-dlp pipe in one download
MaxCalls == 2            \* hardware.py calls one thread makes
MaxTexts == 3            \* texts written to one TqdmCapture
MaxWrites == 1           \* tqdm lines written while separator.separate runs

\* -------------------------------------------------------------- evaluation
\* Op applied to the value of v: v is evaluated once, as a local variable is in Python
With(v, Op(_)) == CHOOSE y \in {Op(x) : x \in {v}} : TRUE

\* ----------------------------------------------------------------- strings
S_empty == <<>>
S_a     == <<"a">>
S_sp_a  == <<" ", "a">>
S_b     == <<"b">>
S_sp    == <<" ">>
S_cpu   == <<"c", "p", "u">>
S_gpu   == <<"g", "p", "u">>
S_GPU   == <<"G", "P", "U">>
S_tpu   == <<"t", "p", "u">>

IsSpace(c) == c = " "

LowerChar(c) ==
    CASE c = "C" -> "c" [] c = "G" -> "g" [] c = "P" -> "p" [] c = "U" -> "u"
      [] OTHER -> c

\* str.lower()
lower(s) == [k \in 1..Len(s) |-> LowerChar(s[k])]

RECURSIVE lstrip(_)
lstrip(s) == IF s # <<>> /\ IsSpace(Head(s)) THEN lstrip(Tail(s)) ELSE s

RECURSIVE rstrip(_)
rstrip(s) ==
    IF s # <<>> /\ IsSpace(s[Len(s)]) THEN rstrip(SubSeq(s, 1, Len(s) - 1)) ELSE s

\* str.strip()
strip(s) == rstrip(lstrip(s))

\* ------------------------------------------------------------ Python values
IStr(s) == [t |-> "str", n |-> 0, s |-> s]
IInt(n) == [t |-> "int", n |-> n, s |-> <<>>]

JAbsent  == [t |-> "absent", n |-> 0, s |-> <<>>, l |-> <<>>]
JNull    == [t |-> "null", n |-> 0, s |-> <<>>, l |-> <<>>]
JBool(b) == [t |-> "bool", n |-> IF b THEN 1 ELSE 0, s |-> <<>>, l |-> <<>>]
JInt(n)  == [t |-> "int", n |-> n, s |-> <<>>, l |-> <<>>]
JStr(s)  == [t |-> "str", n |-> 0, s |-> s, l |-> <<>>]
JList(l) == [t |-> "list", n |-> 0, s |-> <<>>, l |-> l]

IsNumber(v) == v.t \in {"int", "bool"}

\* bool(v)
Truthy(v) ==
    CASE v.t = "bool" -> v.n = 1
      [] v.t = "int"  -> v.n # 0
      [] v.t = "str"  -> v.s # <<>>
      [] v.t = "list" -> v.l # <<>>
      [] OTHER        -> FALSE

\* a == b on list elements: an int never equals a str
ItemEq(a, b) ==
    \/ IsNumber(a) /\ IsNumber(b) /\ a.n = b.n
    \/ a.t = "str" /\ b.t = "str" /\ a.s = b.s

\* a == b on values: bool is a subclass of int, so False == 0 and True == 1
PyEq(a, b) ==
    \/ IsNumber(a) /\ IsNumber(b) /\ a.n = b.n
    \/ a.t = "str" /\ b.t = "str" /\ a.s = b.s
    \/ a.t = "null" /\ b.t = "null"
    \/ a.t = "absent" /\ b.t = "absent"
    \/ /\ a.t = "list" /\ b.t = "list" /\ Len(a.l) = Len(b.l)
       /\ \A k \in 1..Len(a.l) : ItemEq(a.l[k], b.l[k])

Keys == {"recent_files", "max_recent", "force_cpu", "setup_type", "enabled"}

\* dict == dict: the same keys, and equal values under each
DictEq(a, b) ==
    /\ a.kind = "dict" /\ b.kind = "dict"
    /\ \A k \in Keys : PyEq(a[k], b[k])

\* the keys of a dict
KeySet(c) == {k \in Keys : c[k].t # "absent"}

\* a parsed JSON document that is not an object (a list, a number, null, ...)
NonDict ==
    [kind |-> "other", recent_files |-> JAbsent, max_recent |-> JAbsent,
     force_cpu |-> JAbsent, setup_type |-> JAbsent, enabled |-> JAbsent]

\* -------------------------------------------------------------- config.py
DEFAULT_max_recent == 10
MaxRecentFloor == 1
MaxRecentCeil == 50

\* DEFAULT_CONFIG with l as the list it holds under "recent_files"
DefaultWith(l) ==
    [kind |-> "dict", recent_files |-> JList(l), max_recent |-> JInt(DEFAULT_max_recent),
     force_cpu |-> JBool(FALSE), setup_type |-> JStr(S_cpu), enabled |-> JAbsent]

DEFAULT_CONFIG == DefaultWith(DEFAULT_recent)

ConfigIdle ==
    /\ cfg_in = NonDict
    /\ DEFAULT_recent = <<>>
    /\ cfg_op = "none"
    /\ cfg_ret = NonDict
    /\ cfg_writes = <<>>
    /\ cfg_path = S_empty

Min(a, b) == IF a < b THEN a ELSE b
Max(a, b) == IF a > b THEN a ELSE b

\* the loop over recent_files: keep str items, stripped, non-empty, first occurrence
RECURSIVE cleaned_loop(_, _, _)
cleaned_loop(rest, seen, cleaned) ==
    IF rest = <<>> THEN cleaned
    ELSE LET item == Head(rest) IN
         IF item.t # "str" THEN cleaned_loop(Tail(rest), seen, cleaned)
         ELSE LET st == strip(item.s) IN
              IF st = <<>> \/ st \in seen
              THEN cleaned_loop(Tail(rest), seen, cleaned)
              ELSE cleaned_loop(Tail(rest), seen \cup {st}, Append(cleaned, IStr(st)))

\* lst[:k]
Slice(lst, k) == SubSeq(lst, 1, Min(Len(lst), Max(k, 0)))

\* _normalize_config(config), with L the list DEFAULT_CONFIG holds at the call
normalize_with(L, config) ==
    IF config.kind # "dict" THEN DefaultWith(L)
    ELSE
    LET rf == IF config.recent_files.t = "absent" THEN JList(<<>>) ELSE config.recent_files
        recent0 == IF rf.t = "list" THEN cleaned_loop(rf.l, {}, <<>>) ELSE L
        mr == IF config.max_recent.t = "absent" THEN JInt(DEFAULT_max_recent)
              ELSE config.max_recent
        max_recent == IF IsNumber(mr) THEN Max(MaxRecentFloor, Min(MaxRecentCeil, mr.n))
                      ELSE DEFAULT_max_recent
        force0 == Truthy(config.force_cpu)
        st == config.setup_type
        setup0 == IF st.t = "str" /\ lower(st.s) \in {S_cpu, S_gpu} THEN lower(st.s)
                  ELSE S_cpu
        force_cpu == IF setup0 = S_gpu THEN FALSE ELSE force0
        setup_type == IF setup0 # S_gpu /\ force0 THEN S_cpu ELSE setup0
    IN [kind |-> "dict",
        recent_files |-> JList(Slice(recent0, max_recent)),
        max_recent |-> JInt(max_recent),
        force_cpu |-> JBool(force_cpu),
        setup_type |-> JStr(setup_type),
        enabled |-> JAbsent]

normalize_config(config) == normalize_with(DEFAULT_recent, config)

\* whether the dict _normalize_config returns holds DEFAULT_CONFIG's own list object
\* (DEFAULT_CONFIG.copy() is shallow; the dict path ends in a slice, a new list)
normalize_aliased(config) == config.kind # "dict"

File(json) == [st |-> "ok", json |-> json]
FileMissing == [st |-> "missing", json |-> NonDict]
FileCorrupt == [st |-> "corrupt", json |-> NonDict]

\* save_config(config): what json.dump leaves in the file
save_with(L, config) == File(normalize_with(L, config))

\* load_config() on file d: the dict returned, whether its recent_files is
\* DEFAULT_CONFIG's own list, the file afterwards, and the records written
load_config(d) ==
    IF d.st = "missing" THEN
        [config |-> DEFAULT_CONFIG, aliased |-> TRUE,
         disk |-> save_with(DEFAULT_recent, DEFAULT_CONFIG),
         writes |-> <<normalize_config(DEFAULT_CONFIG)>>]
    ELSE IF d.st = "corrupt" THEN
        [config |-> DEFAULT_CONFIG, aliased |-> TRUE, disk |-> d, writes |-> <<>>]
    ELSE
        With(normalize_config(d.json), LAMBDA config :
           IF ~DictEq(config, d.json)
           THEN [config |-> config, aliased |-> normalize_aliased(d.json),
                 disk |-> save_with(DEFAULT_recent, config),
                 writes |-> <<normalize_config(config)>>]
           ELSE [config |-> config, aliased |-> normalize_aliased(d.json),
                 disk |-> d, writes |-> <<>>])

\* recents.remove(path): the first occurrence goes
RECURSIVE list_remove(_, _)
list_remove(lst, x) ==
    IF lst = <<>> THEN <<>>
    ELSE IF ItemEq(Head(lst), x) THEN Tail(lst)
    ELSE <<Head(lst)>> \o list_remove(Tail(lst), x)

\* add_recent_file(path) on file d: the list object after remove/insert, whether
\* that object is DEFAULT_CONFIG's, and the file after both saves
add_recent_file(d, path) ==
    With(load_config(d), LAMBDA r :
    LET recents == r.config.recent_files.l
        present == \E k \in 1..Len(recents) : ItemEq(recents[k], IStr(path))
        moved == <<IStr(path)>> \o (IF present THEN list_remove(recents, IStr(path)) ELSE recents)
        L2 == IF r.aliased THEN moved ELSE DEFAULT_recent
        config == [r.config EXCEPT !.recent_files = JList(Slice(moved, r.config.max_recent.n))]
    IN [DEFAULT_recent |-> L2,
        disk |-> save_with(L2, config),
        writes |-> r.writes \o <<normalize_with(L2, config)>>])

\* ------------------------------------------------------- inputs (config)
SeqsUpTo(S, n) == UNION {[1..k -> S] : k \in 0..n}

Items == {IStr(S_a), IStr(S_sp_a), IStr(S_b), IStr(S_sp), IInt(123)}
RecentFieldValues == {JAbsent, JNull} \cup {JList(l) : l \in SeqsUpTo(Items, MaxRecentLen)}
MaxRecentValues == {JAbsent, JInt(0), JInt(1), JInt(51), JBool(TRUE), JStr(S_a)}
ForceValues == {JAbsent, JBool(TRUE), JBool(FALSE), JInt(0), JStr(S_a)}
SetupValues == {JAbsent, JStr(S_cpu), JStr(S_gpu), JStr(S_GPU), JStr(S_tpu)}
EnabledValues == {JAbsent, JBool(FALSE)}

\* Inputs come in two families, one per pair of fields whose rules interact:
\* recent_files with max_recent (the cap), and force_cpu with setup_type (coherence).
ListDicts ==
    [kind : {"dict"}, recent_files : RecentFieldValues, max_recent : MaxRecentValues,
     force_cpu : {JBool(FALSE)}, setup_type : {JStr(S_cpu)}, enabled : EnabledValues]

ModeDicts ==
    [kind : {"dict"}, recent_files : {JList(<<>>), JList(<<IStr(S_a)>>)},
     max_recent : {JInt(DEFAULT_max_recent)},
     force_cpu : ForceValues, setup_type : SetupValues, enabled : EnabledValues]

Raws == ListDicts \cup ModeDicts \cup {NonDict}

Paths == {S_a, S_sp_a}

\* -------------------------------------------------------------- models.py
BS_ROFORMER == "model_bs_roformer_ep_317_sdr_12.9755.ckpt"
KIM_VOCAL_2 == "Kim_Vocal_2.onnx"

NoSettings == [fp16 |-> FALSE, batch_size |-> 0]

\* MODEL_PRESETS: has_gpu says whether the preset has a "gpu" entry
MODEL_PRESETS(m) ==
    IF m = KIM_VOCAL_2 THEN
        [type |-> "onnx", cpu |-> [fp16 |-> FALSE, batch_size |-> 1],
         has_gpu |-> FALSE, gpu |-> NoSettings]
    ELSE
        [type |-> "pytorch", cpu |-> [fp16 |-> FALSE, batch_size |-> 1],
         has_gpu |-> TRUE, gpu |-> [fp16 |-> TRUE, batch_size |-> 1]]

\* a selector that looks at the device kind only
get_active_model_any_gpu(hw) == IF hw.gpu_type # "cpu" THEN BS_ROFORMER ELSE KIM_VOCAL_2

\* get_active_model(hw_info)
get_active_model(hw) ==
    IF hw.gpu_type # "cpu" /\ hw.fp16_capable THEN BS_ROFORMER ELSE KIM_VOCAL_2

\* get_model_settings(model_filename, hw_info), for a model of MODEL_PRESETS
get_model_settings(m, hw) ==
    LET preset == MODEL_PRESETS(m) IN
    IF hw.gpu_type # "cpu" /\ preset.has_gpu THEN preset.gpu ELSE preset.cpu

NoVram == "none"
Descriptors ==
    [gpu_type : {"cpu", "nvidia"}, fp16_capable : BOOLEAN, fp8_capable : BOOLEAN,
     tensor_cores : BOOLEAN, vram : {NoVram, "4.0 GB", "8.0 GB", "24.0 GB"}]

NoDescriptor ==
    [gpu_type |-> "cpu", fp16_capable |-> FALSE, fp8_capable |-> FALSE,
     tensor_cores |-> FALSE, vram |-> NoVram]

SelectIdle ==
    /\ hw_info = NoDescriptor
    /\ sel_pc = "idle"
    /\ sel_model = "none"
    /\ sel_settings = NoSettings

\* ---------------------------------------------------------------- gpu.py
\* pip commands, by what they name
PipUninstallTorch == [op |-> "uninstall", pkg |-> "torch", index |-> "none"]
PipInstallTorch(idx) == [op |-> "install", pkg |-> "torch", index |-> idx]
PipInstall(pkg) == [op |-> "install", pkg |-> pkg, index |-> "none"]

\* check_nvidia_gpu(): whether nvidia-smi names a device
check_nvidia_gpu(e) == e.nvgpu

\* get_torch_install_cmd(gpu)
get_torch_install_cmd(gpu) == IF gpu THEN PipInstallTorch("cu128") ELSE PipInstallTorch("cpu")

\* a GPU plan that installs CUDA torch before it uninstalls the CPU one
get_gpu_switch_cmds_install_first ==
    <<PipInstallTorch("cu128"), PipUninstallTorch, PipInstall("audio-separator[gpu]")>>

\* get_gpu_switch_cmds()
get_gpu_switch_cmds ==
    <<PipUninstallTorch, PipInstallTorch("cu128"), PipInstall("audio-separator[gpu]")>>

\* get_cpu_switch_cmds()
get_cpu_switch_cmds ==
    <<PipUninstallTorch, PipInstallTorch("cpu"), PipInstall("onnxruntime"),
      PipInstall("audio-separator")>>

\* verify_cuda_torch(): torch imports and torch.cuda.is_available()
verify_cuda_torch(e) == e.torch /\ e.cuda_build /\ e.nvgpu

\* what a pip command that exits 0 leaves installed
Effect(cmd, e) ==
    IF cmd.pkg = "torch" THEN
        IF cmd.op = "uninstall" THEN [e EXCEPT !.torch = FALSE, !.cuda_build = FALSE]
        ELSE IF e.torch THEN e
        ELSE [e EXCEPT !.torch = TRUE, !.cuda_build = (cmd.index = "cu128")]
    ELSE IF cmd.pkg = "onnxruntime" THEN [e EXCEPT !.ort = TRUE]
    ELSE IF cmd.pkg = "yt-dlp" THEN [e EXCEPT !.ytdlp = TRUE]
    ELSE [e EXCEPT !.asep = TRUE]

\* ------------------------------------------------------------ hardware.py
NoHwInfo ==
    [device |-> "none", device_short |-> "none", gpu_type |-> "none",
     tensor_cores |-> FALSE, fp16_capable |-> FALSE, fp8_capable |-> FALSE,
     provider |-> "none", vram |-> "none"]
NoAccel == [enabled |-> FALSE, fp16 |-> FALSE, fp8 |-> FALSE, batch_size |-> 0]

\* _CACHE as the module is imported
CACHE0 ==
    [checked |-> FALSE, torch_available |-> FALSE, ort_available |-> FALSE,
     gpu_type |-> "cpu", gpu_name |-> "CPU", gpu_vram |-> "none",
     hw_info |-> NoHwInfo, accel |-> NoAccel]

\* a comparison that wants both components at least as large
SmGE_componentwise(sm, t) == sm[1] >= t[1] /\ sm[2] >= t[2]

\* sm >= t on (major, minor) tuples
SmGE(sm, t) == sm[1] > t[1] \/ (sm[1] = t[1] /\ sm[2] >= t[2])

\* the detection of _ensure_init, given force_cpu read from the config
detect(force_cpu, e, cache) ==
    LET c0 == [cache EXCEPT !.torch_available = e.torch, !.ort_available = e.ort] IN
    IF ~force_cpu /\ e.torch /\ e.cuda_build /\ e.nvgpu THEN
        [c0 EXCEPT !.gpu_type = "nvidia", !.gpu_name = "GPU", !.gpu_vram = e.vram,
                   !.hw_info = [device |-> "GPU", device_short |-> "CUDA",
                                gpu_type |-> "nvidia",
                                tensor_cores |-> SmGE(e.sm, <<7, 0>>),
                                fp16_capable |-> SmGE(e.sm, <<7, 0>>),
                                fp8_capable |-> SmGE(e.sm, <<8, 9>>),
                                provider |-> "CUDAExecutionProvider", vram |-> e.vram],
                   !.accel = [enabled |-> TRUE, fp16 |-> SmGE(e.sm, <<7, 0>>),
                              fp8 |-> SmGE(e.sm, <<8, 9>>), batch_size |-> 1],
                   !.checked = TRUE]
    ELSE IF ~force_cpu /\ check_nvidia_gpu(e) THEN
        [c0 EXCEPT !.gpu_type = "nvidia", !.gpu_name = "GPU",
                   !.hw_info = [device |-> "GPU (CUDA torch not installed)",
                                device_short |-> "GPU (no CUDA torch)",
                                gpu_type |-> "nvidia", tensor_cores |-> FALSE,
                                fp16_capable |-> FALSE, fp8_capable |-> FALSE,
                                provider |-> "CPU (run Setup to install CUDA)",
                                vram |-> "none"],
                   !.accel = [enabled |-> FALSE, fp16 |-> FALSE, fp8 |-> FALSE,
                              batch_size |-> 1],
                   !.checked = TRUE]
    ELSE
        LET name == IF force_cpu THEN "CPU (Forced)" ELSE "CPU" IN
        [c0 EXCEPT !.gpu_type = "cpu", !.gpu_name = name, !.gpu_vram = "none",
                   !.hw_info = [device |-> name, device_short |-> "CPU",
                                gpu_type |-> "cpu", tensor_cores |-> FALSE,
                                fp16_capable |-> FALSE, fp8_capable |-> FALSE,
                                provider |-> IF e.ort THEN "CPUExecutionProvider" ELSE "CPU",
                                vram |-> "none"],
                   !.accel = [enabled |-> FALSE, fp16 |-> FALSE, fp8 |-> FALSE,
                              batch_size |-> 1],
                   !.checked = TRUE]

\* _ensure_init() on config file d: the cache, the file and the number of writes after
ensure_init(d, e, cache) ==
    IF cache.checked THEN [cache |-> cache, disk |-> d, writes |-> 0]
    ELSE With(load_config(d), LAMBDA r :
              [cache |-> detect(Truthy(r.config.force_cpu), e, cache),
               disk |-> r.disk, writes |-> Len(r.writes)])

\* refresh_vram()
refresh_vram(d, e, cache) == ensure_init(d, e, [cache EXCEPT !.checked = FALSE])

\* ------------------------------------------------------- screens/setup.py
NoResults ==
    [current |-> "none", issues |-> <<>>, installs |-> <<>>, success_mode |-> "none",
     gpu_name |-> FALSE, refresh_hardware |-> TRUE]

\* the mode name a config dict holds under "setup_type"
ModeOf(config) == IF config.setup_type.s = S_gpu THEN "gpu" ELSE "cpu"

\* a planner that never finds the GPU runtime in place
gpu_never_installed(cuda_ready, current) == FALSE

\* _collect_gpu_switch: nothing to do when CUDA torch verifies and the stored mode is gpu
gpu_already_installed(cuda_ready, current) == cuda_ready /\ current = "gpu"

\* _collect_cpu_switch: nothing to do when the stored mode is cpu and CUDA torch does not verify
cpu_already_installed(cuda_ready, current) == current = "cpu" /\ ~cuda_ready

\* _collect_gpu_switch(): the results dict, and the file and cache the probes leave
collect_gpu_switch(d, e, cache) ==
    With(load_config(d), LAMBDA r :
    LET current == ModeOf(r.config)
        res == IF gpu_already_installed(verify_cuda_torch(e), current)
               THEN [current |-> current, issues |-> <<>>, installs |-> <<>>,
                     success_mode |-> "gpu", gpu_name |-> check_nvidia_gpu(e),
                     refresh_hardware |-> TRUE]
               ELSE [current |-> current,
                     issues |-> <<"Uninstall CPU-only torch",
                                  "Install PyTorch with CUDA 12.8 (cu128) for RTX 50 series",
                                  "Install audio-separator[gpu]">>,
                     installs |-> get_gpu_switch_cmds,
                     success_mode |-> "none", gpu_name |-> check_nvidia_gpu(e),
                     refresh_hardware |-> TRUE]
    IN [results |-> res, disk |-> r.disk, cache |-> cache])

\* _collect_cpu_switch()
collect_cpu_switch(d, e, cache) ==
    With(load_config(d), LAMBDA r :
    LET current == ModeOf(r.config)
        res == IF cpu_already_installed(verify_cuda_torch(e), current)
               THEN [current |-> current, issues |-> <<>>, installs |-> <<>>,
                     success_mode |-> "cpu", gpu_name |-> FALSE,
                     refresh_hardware |-> TRUE]
               ELSE [current |-> current,
                     issues |-> <<"Uninstall CUDA torch", "Install CPU-only PyTorch",
                                  "Install onnxruntime for ONNX models">>,
                     installs |-> get_cpu_switch_cmds,
                     success_mode |-> "none", gpu_name |-> FALSE,
                     refresh_hardware |-> TRUE]
    IN [results |-> res, disk |-> r.disk, cache |-> cache])

\* _collect_dependency_check(): the issues it appends, in its order of checks
dependency_issues(torch_avail, cuda_ready, is_gpu_mode, e) ==
    (IF ~torch_avail THEN <<"PyTorch: Missing">>
     ELSE IF is_gpu_mode /\ ~cuda_ready
          THEN <<"PyTorch: CPU-only build installed, need CUDA build">>
          ELSE <<>>)
    \o (IF e.ort THEN <<>> ELSE <<"onnxruntime: Missing">>)
    \o (IF e.ffmpeg THEN <<>> ELSE <<"ffmpeg: Missing (install from ffmpeg.org)">>)
    \o (IF e.ytdlp THEN <<>> ELSE <<"yt-dlp: Missing">>)
    \o (IF e.asep THEN <<>> ELSE <<"audio-separator: Missing">>)

\* _collect_dependency_check(): the commands it collects, in the same order
dependency_installs(torch_avail, cuda_ready, is_gpu_mode, e) ==
    (IF ~torch_avail THEN <<get_torch_install_cmd(is_gpu_mode)>>
     ELSE IF is_gpu_mode /\ ~cuda_ready THEN get_gpu_switch_cmds ELSE <<>>)
    \o (IF e.ort THEN <<>> ELSE <<PipInstall("onnxruntime")>>)
    \o (IF e.ytdlp THEN <<>> ELSE <<PipInstall("yt-dlp")>>)
    \o (IF e.asep THEN <<>>
        ELSE <<PipInstall(IF is_gpu_mode THEN "audio-separator[gpu]" ELSE "audio-separator")>>)

\* _collect_dependency_check(): the results dict from what load_config and refresh_vram gave
dependency_results(current_mode, force_cpu, hw_cache, e) ==
    [current |-> current_mode,
     issues |-> dependency_issues(hw_cache.torch_available, verify_cuda_torch(e),
                                  current_mode = "gpu", e),
     installs |-> dependency_installs(hw_cache.torch_available, verify_cuda_torch(e),
                                      current_mode = "gpu", e),
     success_mode |-> IF dependency_issues(hw_cache.torch_available, verify_cuda_torch(e),
                                           current_mode = "gpu", e) = <<>>
                      THEN current_mode ELSE "none",
     gpu_name |-> IF force_cpu THEN check_nvidia_gpu(e)
                  ELSE hw_cache.hw_info.gpu_type = "nvidia",
     refresh_hardware |-> FALSE]

\* _collect_dependency_check()
collect_dependency_check(d, e, cache) ==
    With(load_config(d), LAMBDA r :
    With(refresh_vram(r.disk, e, cache), LAMBDA h :
        [results |-> dependency_results(ModeOf(r.config), Truthy(r.config.force_cpu),
                                        h.cache, e),
         disk |-> h.disk, cache |-> h.cache]))

\* a success screen that re-probes the hardware before it saves the mode
show_success_refresh_first(mode, refresh_hardware, d, e, cache) ==
    With(load_config(d), LAMBDA r :
    With(IF mode = "gpu"
         THEN [r.config EXCEPT !.setup_type = JStr(S_gpu), !.force_cpu = JBool(FALSE)]
         ELSE [r.config EXCEPT !.setup_type = JStr(S_cpu), !.force_cpu = JBool(TRUE)],
         LAMBDA config :
    With(IF refresh_hardware THEN refresh_vram(r.disk, e, cache)
         ELSE [cache |-> cache, disk |-> r.disk, writes |-> 0], LAMBDA h :
        [disk |-> save_with(DEFAULT_recent, config), cache |-> h.cache,
         writes |-> Len(r.writes) + 1 + h.writes])))

\* _show_success_for_mode(mode, refresh_hardware): load, set the mode, save, re-probe
show_success_for_mode(mode, refresh_hardware, d, e, cache) ==
    With(load_config(d), LAMBDA r :
    With(IF mode = "gpu"
         THEN [r.config EXCEPT !.setup_type = JStr(S_gpu), !.force_cpu = JBool(FALSE)]
         ELSE [r.config EXCEPT !.setup_type = JStr(S_cpu), !.force_cpu = JBool(TRUE)],
         LAMBDA config :
    With(save_with(DEFAULT_recent, config), LAMBDA d2 :
    With(IF refresh_hardware THEN refresh_vram(d2, e, cache)
         ELSE [cache |-> cache, disk |-> d2, writes |-> 0], LAMBDA h :
        [disk |-> h.disk, cache |-> h.cache,
         writes |-> Len(r.writes) + 1 + h.writes]))))

\* a worker that names steps by the loop index itself
StepNumberZeroBased(i) == i

\* a worker that reports success whatever it collected
WorkerExitAlwaysComplete(errs) == "call_complete"

\* a worker that leaves the loop with break instead of return when cancelled
AfterCancelBreak(errs) == IF errs # <<>> THEN "call_failed" ELSE "call_complete"

\* errors.append(f"Step {i+1}: ...") names the step by i + 1
StepNumber(i) == i + 1

\* where _install_worker goes after its loop
WorkerExit(errs) == IF errs # <<>> THEN "call_failed" ELSE "call_complete"

\* where _install_worker goes when worker.is_cancelled holds at the top of the loop
AfterCancel(errs) == "cancelled"

Outcomes == {"ok", "exit code", "Timed out", "exception"}

NoEnv ==
    [torch |-> FALSE, cuda_build |-> FALSE, ort |-> FALSE, ffmpeg |-> FALSE,
     ytdlp |-> FALSE, asep |-> FALSE, nvgpu |-> FALSE, sm |-> <<0, 0>>, vram |-> "none"]

InstallIdle ==
    /\ target_mode = "none"
    /\ env = NoEnv
    /\ CACHE = CACHE0
    /\ scr = "none"
    /\ results = NoResults
    /\ issues = <<>>
    /\ installs = <<>>
    /\ is_installing = FALSE
    /\ w_pc = "idle"
    /\ w_i = 0
    /\ errors = <<>>
    /\ cancelled = FALSE
    /\ launched = <<>>
    /\ outcomes = <<>>
    /\ observed_at = 0
    /\ run_disk0 = FileMissing
    /\ run_writes = 0
    /\ complete_calls = 0

\* ----------------------------------------------------------- separator.py
\* a file name: prefix, stem as the pieces the code looks for, "(n)" number, extension
FileName(pre, stem, ext) == [pre |-> pre, stem |-> stem, num |-> 0, ext |-> ext]

NoName == FileName("", <<>>, "")

\* "(original)" in input_stem
HasOriginalMark(stem) == \E k \in 1..Len(stem) : stem[k] = " (original)"

\* input_stem.replace(" (original)", "")
NotOriginalMark(t) == t # " (original)"
clean_stem(stem) == SelectSeq(stem, NotOriginalMark)

\* "vocal" in f.lower()
ContainsVocal(name) ==
    \E k \in 1..Len(name.stem) : name.stem[k] \in {"vocal take", "_(Vocals)"}

\* os.path.exists, os.remove, os.rename on the directory
Exists(files, n) == \E f \in files : f.name = n
Remove(files, n) == {f \in files : f.name # n}
Rename(files, src, dst) ==
    {IF f.name = src THEN [f EXCEPT !.name = dst] ELSE f : f \in Remove(files, dst)}
NamesIn(files) == {f.name : f \in files}

\* f"{input_stem} (original){input_ext}"
backup_name(input) == FileName("", Append(input.stem, " (original)"), input.ext)

\* f"temp_{input_filename}"
temp_name(input) == FileName("temp_", input.stem, input.ext)

\* f"{clean_stem} {suffix}{input_ext}" with suffix "[vocals]" or "[instrumental]"
dst_name(input, f) ==
    FileName("", Append(clean_stem(input.stem),
                        IF ContainsVocal(f) THEN " [vocals]" ELSE " [instrumental]"),
             input.ext)

\* the path run_separation renames an artifact to, given the wanted path p
destination(p, files) == p

\* what _separation_worker shows for the value run_separation returned
worker_report(returned) == "success"

\* if original_duration_ms < 10000: padding = 10000 - original_duration_ms + 1000
PadFloor == 10000
PadMargin == 1000

\* a padding that only fills up to the floor
padding_to_floor(d) == PadFloor - d

padding_for(d) == PadFloor - d + PadMargin

\* TARGET_MODEL of VocalsScreen and of separate_audio
TARGET_MODEL == KIM_VOCAL_2

\* a job that announces the model load as processing
load_stage_processing == "processing"

\* progress_callback('loading', -1, ...) before separator.load_model
load_stage == "loading"

\* TqdmCapture.last_percent as constructed
NoPercent == -1

\* a backup taken whenever the name is unmarked, whatever holds the backup name
should_backup_unmarked(input, files) == ~HasOriginalMark(input.stem)

\* the original is renamed to the backup name
should_backup(input, files) ==
    ~HasOriginalMark(input.stem) /\ ~Exists(files, backup_name(input))

SeparationIdle ==
    /\ sep_input = NoName
    /\ duration = 0
    /\ PYDUB_OK = FALSE
    /\ padded = FALSE
    /\ fs = {}
    /\ sep_pc = "idle"
    /\ output_files = <<>>
    /\ sep_j = 0
    /\ generated_files = <<>>
    /\ sep_result = "none"
    /\ finalized = <<>>
    /\ fs_before = {}
    /\ accel = "free"
    /\ ui_report = "none"
    /\ phases = <<>>
    /\ events = <<>>
    /\ last_percent = NoPercent
    /\ writes = 0
    /\ loaded_model = "none"
    /\ run_settings = NoSettings

\* ----------------------------------------------- separator.py, TqdmCapture
\* a text given to write(): the numbers of its 'N%|' markers in order of
\* appearance, and whether text.strip() is empty
Text(markers, blank) == [markers |-> markers, blank |-> blank]

\* TqdmCapture(callback, original_stderr): last_percent = -1
TqdmCapture(callback) ==
    [callback |-> callback, last_percent |-> NoPercent, sink |-> <<>>, called |-> <<>>]

\* a sink that receives only the texts without a marker
forward_unmatched(sink, text) == IF text.markers = <<>> THEN Append(sink, text) ELSE sink

\* self.original_stderr.write(text)
forward(sink, text) == Append(sink, text)

\* a scan that reports every marker it finds
emits_every_match(self, text) == self.callback /\ ~text.blank /\ text.markers # <<>>

\* write(): the callback is called: one is installed, the text is not blank,
\* TQDM_PATTERN.search finds a marker, and its number is not last_percent
emits(self, text) ==
    /\ self.callback
    /\ ~text.blank
    /\ text.markers # <<>>
    /\ text.markers[1] # self.last_percent

\* TqdmCapture.write(text)
write(self, text) ==
    With([self EXCEPT !.sink = forward(self.sink, text)], LAMBDA s1 :
        IF emits(self, text)
        THEN [s1 EXCEPT !.last_percent = text.markers[1],
                        !.called = Append(self.called, text.markers[1])]
        ELSE s1)

CaptureIdle ==
    /\ capture = TqdmCapture(FALSE)
    /\ cap_written = <<>>

\* ------------------------------------------------------ screens/youtube.py
\* a line of yt-dlp output, as far as the worker looks at it: the title of a
\* "[download] Destination:" line, the groups pct_re matched, a post-process tag
Line(dest, pct, post) == [dest |-> dest, pct |-> pct, post |-> post]

NoTitle == ""

\* what pct_re's group (\d+\.?\d*) matched: the digits before the point and after it
Decimal(whole, frac) == [whole |-> whole, frac |-> frac]

\* a Python number, to one decimal place
Number(units, tenths) == [units |-> units, tenths |-> tenths]

\* float(match.group(1))
float(g) == Number(g.whole, IF g.frac = <<>> THEN 0 ELSE g.frac[1])

\* what process.stdout.read(1) gives: a line-feed, a carriage-return, or text (a
\* run of other bytes, told apart by what the worker looks for in it)
Chunk(kind, dest, pct) == [kind |-> kind, dest |-> dest, pct |-> pct]
LF == Chunk("lf", NoTitle, <<>>)
CR == Chunk("cr", NoTitle, <<>>)

\* a test that knows the line-feed only
IsDelimiter_lf_only(chunk) == chunk = LF

\* chunk in (b"\n", b"\r")
IsDelimiter(chunk) == chunk \in {LF, CR}

\* buf.decode().strip() as the worker reads it: the title after the first
\* "Destination:", the first match of pct_re
decode(b) ==
    With(SelectSeq(b, LAMBDA c : c.dest # NoTitle), LAMBDA dests :
    With(SelectSeq(b, LAMBDA c : c.pct # <<>>), LAMBDA pcts :
        Line(IF dests = <<>> THEN NoTitle ELSE dests[1].dest,
             IF pcts = <<>> THEN <<>> ELSE pcts[1].pct, FALSE)))

\* "[download] Destination:" in line
IsDestination(line) == line.dest # NoTitle

\* a routing that sends only the percentages before any announcement to the video bar
bar_for_before_first(mode, count) ==
    IF mode = "video" THEN (IF count < 1 THEN "video-bar" ELSE "audio-bar")
    ELSE "audio-bar"

\* the bar a parsed percentage is sent to
bar_for(mode, count) ==
    IF mode = "video" THEN (IF count <= 1 THEN "video-bar" ELSE "audio-bar")
    ELSE "audio-bar"

DownloadIdle ==
    /\ download_mode = "none"
    /\ dl_pc = "idle"
    /\ destination_count = 0
    /\ download_title = NoTitle
    /\ line_count = 0
    /\ buf = <<>>
    /\ stream = <<>>
    /\ processed = <<>>
    /\ bars = <<>>
    /\ dl_shown = "none"

\* -------------------------------------------------- hardware.py, per thread
Threads == {"main", "worker"}

ProbeIdle ==
    /\ p_pc = [t \in Threads |-> "idle"]
    /\ p_op = [t \in Threads |-> "none"]
    /\ p_calls = [t \in Threads |-> 0]
    /\ p_ret = [t \in Threads |-> NoHwInfo]
    /\ p_new = [t \in Threads |-> CACHE0]
    /\ p_first = [t \in Threads |-> "none"]
    /\ detections = 0
    /\ p_seen = {}
    /\ p_found = {}
    /\ p_views = {}

\* ------------------------------------------------------ config operations
InitConfig ==
    /\ cfg_in \in Raws
    /\ disk \in {FileMissing, FileCorrupt, File(cfg_in)}
    /\ DEFAULT_recent = <<>>
    /\ cfg_op = "none"
    /\ cfg_ret = NonDict
    /\ cfg_writes = <<>>
    /\ cfg_path = S_empty
    /\ disk_before = disk
    /\ SelectIdle
    /\ InstallIdle
    /\ SeparationIdle
    /\ DownloadIdle
    /\ CaptureIdle
    /\ ProbeIdle

\* _normalize_config(cfg_in)
NormalizeCall ==
    /\ cfg_op' = "normalize"
    /\ cfg_ret' = normalize_config(cfg_in)
    /\ cfg_writes' = <<>>
    /\ cfg_path' = S_empty
    /\ disk_before' = disk
    /\ UNCHANGED <<disk, DEFAULT_recent, cfg_in>>
    /\ UNCHANGED nonConfigVars

\* load_config()
LoadConfigCall ==
    LET r == load_config(disk) IN
    /\ cfg_op' = "load"
    /\ cfg_ret' = r.config
    /\ cfg_writes' = r.writes
    /\ cfg_path' = S_empty
    /\ disk' = r.disk
    /\ disk_before' = disk
    /\ UNCHANGED <<DEFAULT_recent, cfg_in>>
    /\ UNCHANGED nonConfigVars

\* save_config(cfg_in)
SaveConfigCall ==
    /\ cfg_op' = "save"
    /\ cfg_ret' = NonDict
    /\ cfg_writes' = <<normalize_config(cfg_in)>>
    /\ cfg_path' = S_empty
    /\ disk' = save_with(DEFAULT_recent, cfg_in)
    /\ disk_before' = disk
    /\ UNCHANGED <<DEFAULT_recent, cfg_in>>
    /\ UNCHANGED nonConfigVars

\* add_recent_file(path)
AddRecentFileCall ==
    \E path \in Paths :
        LET r == add_recent_file(disk, path) IN
        /\ cfg_op' = "add_recent"
        /\ cfg_ret' = NonDict
        /\ cfg_writes' = r.writes
        /\ cfg_path' = path
        /\ disk' = r.disk
        /\ DEFAULT_recent' = r.DEFAULT_recent
        /\ disk_before' = disk
        /\ UNCHANGED cfg_in
        /\ UNCHANGED nonConfigVars

NextConfig == NormalizeCall \/ LoadConfigCall \/ SaveConfigCall \/ AddRecentFileCall

SpecConfig == InitConfig /\ [][NextConfig]_vars

InitSelect ==
    /\ hw_info \in Descriptors
    /\ sel_pc = "idle"
    /\ sel_model = "none"
    /\ sel_settings = NoSettings
    /\ disk = FileMissing
    /\ disk_before = disk
    /\ ConfigIdle
    /\ InstallIdle
    /\ SeparationIdle
    /\ DownloadIdle
    /\ CaptureIdle
    /\ ProbeIdle

\* select(descriptor): the model, then that model's settings on the same descriptor
Select ==
    /\ sel_pc = "idle"
    /\ sel_pc' = "selected"
    /\ sel_model' = get_active_model(hw_info)
    /\ sel_settings' = get_model_settings(get_active_model(hw_info), hw_info)
    /\ UNCHANGED hw_info
    /\ UNCHANGED nonSelectVars

NextSelect == Select

SpecSelect == InitSelect /\ [][NextSelect]_vars

\* C8: the selector returns BS-Roformer with its gpu settings iff the device is a gpu
\* and fp16_capable; for every other descriptor, whatever its VRAM, Kim Vocal 2 with
\* its cpu settings (fp16 off).
C8_SelectGpuModelIffFp16Gpu ==
    sel_pc = "selected" =>
        IF hw_info.gpu_type = "nvidia" /\ hw_info.fp16_capable
        THEN /\ sel_model = BS_ROFORMER
             /\ sel_settings = [fp16 |-> TRUE, batch_size |-> 1]
        ELSE /\ sel_model = KIM_VOCAL_2
             /\ sel_settings = [fp16 |-> FALSE, batch_size |-> 1]

C8_Witness ==
    /\ sel_pc = "selected"
    /\ hw_info.gpu_type = "nvidia" /\ ~hw_info.fp16_capable /\ hw_info.vram = "24.0 GB"
    /\ sel_model = KIM_VOCAL_2

\* ------------------------------------------------- setup screen operations
StoredRecord(mode, force) ==
    [DefaultWith(<<>>) EXCEPT !.setup_type = JStr(mode), !.force_cpu = JBool(force)]

\* a record an older version left: upper-case mode, contradictory flag, stale key
LegacyRecord ==
    [DefaultWith(<<>>) EXCEPT !.setup_type = JStr(S_GPU), !.force_cpu = JBool(TRUE),
                              !.enabled = JBool(FALSE)]

InstallDisks ==
    {FileMissing, FileCorrupt, File(LegacyRecord), File(StoredRecord(S_cpu, FALSE)),
     File(StoredRecord(S_cpu, TRUE)), File(StoredRecord(S_gpu, FALSE))}

Machine(torch, cuda_build, others, ffmpeg, nvgpu, sm) ==
    [torch |-> torch, cuda_build |-> cuda_build, ort |-> others, ffmpeg |-> ffmpeg,
     ytdlp |-> others, asep |-> others, nvgpu |-> nvgpu, sm |-> sm,
     vram |-> IF nvgpu THEN "8.0 GB" ELSE "none"]

Machines ==
    {Machine(TRUE, FALSE, TRUE, TRUE, FALSE, <<0, 0>>),    \* CPU box, all installed
     Machine(TRUE, FALSE, TRUE, FALSE, FALSE, <<0, 0>>),   \* CPU box, only ffmpeg missing
     Machine(TRUE, FALSE, TRUE, TRUE, TRUE, <<8, 9>>),     \* GPU box with CPU-only torch
     Machine(TRUE, TRUE, TRUE, TRUE, TRUE, <<8, 9>>),      \* GPU box, CUDA torch works
     Machine(TRUE, TRUE, TRUE, TRUE, TRUE, <<6, 1>>),      \* older GPU, CUDA torch works
     Machine(FALSE, FALSE, FALSE, FALSE, TRUE, <<8, 9>>)}  \* GPU box, nothing installed

\* SetupScreen(target_mode) pushed and mounted: _show_checking_state has run
InitInstall ==
    /\ target_mode \in {"gpu", "cpu", "none"}
    /\ env \in Machines
    /\ disk \in InstallDisks
    /\ disk_before = disk
    /\ ConfigIdle
    /\ SelectIdle
    /\ SeparationIdle
    /\ DownloadIdle
    /\ CaptureIdle
    /\ ProbeIdle
    /\ CACHE = CACHE0
    /\ scr = "checking"
    /\ results = NoResults
    /\ issues = <<>>
    /\ installs = <<>>
    /\ is_installing = FALSE
    /\ w_pc = "idle"
    /\ w_i = 0
    /\ errors = <<>>
    /\ cancelled = FALSE
    /\ launched = <<>>
    /\ outcomes = <<>>
    /\ observed_at = 0
    /\ run_disk0 = disk
    /\ run_writes = 0
    /\ complete_calls = 0

installRest == <<cfg_in, cfg_op, cfg_ret, cfg_writes, cfg_path,
               disk_before, DEFAULT_recent, selectVars,
                 separationVars, downloadVars, probeVars, captureVars>>
workerVars == <<w_pc, w_i, errors, cancelled, launched, outcomes, observed_at,
                run_disk0, run_writes, complete_calls>>

\* _run_initial_checks, up to the hand-over of the results
RunInitialChecks ==
    /\ scr = "checking"
    /\ \E r \in {IF target_mode = "gpu" THEN collect_gpu_switch(disk, env, CACHE)
                  ELSE IF target_mode = "cpu" THEN collect_cpu_switch(disk, env, CACHE)
                  ELSE collect_dependency_check(disk, env, CACHE)} :
          /\ results' = r.results
          /\ disk' = r.disk
          /\ CACHE' = r.cache
    /\ scr' = "collected"
    /\ UNCHANGED <<target_mode, env, issues, installs, is_installing, workerVars, installRest>>

\* _apply_results(results)
ApplyResults ==
    /\ scr = "collected"
    /\ issues' = results.issues
    /\ installs' = results.installs
    /\ IF results.success_mode # "none"
       THEN \E s \in {show_success_for_mode(results.success_mode,
                                              results.refresh_hardware, disk, env, CACHE)} :
               /\ disk' = s.disk
               /\ CACHE' = s.cache
               /\ scr' = "success"
       ELSE /\ scr' = IF results.issues # <<>> THEN "issues" ELSE "status"
            /\ UNCHANGED <<disk, CACHE>>
    /\ UNCHANGED <<target_mode, env, results, is_installing, workerVars, installRest>>

\* the install button: _start_installation
StartInstallation ==
    /\ scr = "issues"
    /\ is_installing' = TRUE
    /\ scr' = "installing"
    /\ w_pc' = "loop"
    /\ w_i' = 0
    /\ errors' = <<>>
    /\ cancelled' = FALSE
    /\ run_disk0' = disk
    /\ run_writes' = 0
    /\ UNCHANGED <<target_mode, env, CACHE, results, issues, installs, launched, outcomes,
                   observed_at, complete_calls, disk, installRest>>

\* _install_worker: the for loop is exhausted
WorkerEndOfPlan ==
    /\ w_pc = "loop"
    /\ w_i >= Len(installs)
    /\ w_pc' = WorkerExit(errors)
    /\ UNCHANGED <<target_mode, env, CACHE, scr, results, issues, installs, is_installing,
                   w_i, errors, cancelled, launched, outcomes, observed_at, run_disk0,
                   run_writes, complete_calls, disk, installRest>>

\* _install_worker: worker.is_cancelled at the top of an iteration
WorkerObservesCancel ==
    /\ w_pc = "loop"
    /\ w_i < Len(installs)
    /\ cancelled
    /\ observed_at' = w_i + 1
    /\ w_pc' = AfterCancel(errors)
    /\ UNCHANGED <<target_mode, env, CACHE, scr, results, issues, installs, is_installing,
                   w_i, errors, cancelled, launched, outcomes, run_disk0,
                   run_writes, complete_calls, disk, installRest>>

\* _install_worker: subprocess.run(cmd, timeout=600) is started
WorkerLaunchStep ==
    /\ w_pc = "loop"
    /\ w_i < Len(installs)
    /\ ~cancelled
    /\ launched' = Append(launched, w_i + 1)
    /\ w_pc' = "running"
    /\ UNCHANGED <<target_mode, env, CACHE, scr, results, issues, installs, is_installing,
                   w_i, errors, cancelled, outcomes, observed_at, run_disk0,
                   run_writes, complete_calls, disk, installRest>>

\* _install_worker: subprocess.run returns or raises
StepFinishes ==
    /\ w_pc = "running"
    /\ \E outcome \in Outcomes :
        /\ outcomes' = Append(outcomes, outcome)
        /\ errors' = IF outcome = "ok" THEN errors
                     ELSE Append(errors, [step |-> StepNumber(w_i), msg |-> outcome])
        /\ env' = IF outcome = "ok" THEN Effect(installs[w_i + 1], env) ELSE env
    /\ w_i' = w_i + 1
    /\ w_pc' = "loop"
    /\ UNCHANGED <<target_mode, CACHE, scr, results, issues, installs, is_installing,
                   cancelled, launched, observed_at, run_disk0,
                   run_writes, complete_calls, disk, installRest>>

\* _install_failed(errors)
InstallFailed ==
    /\ w_pc = "call_failed"
    /\ is_installing' = FALSE
    /\ scr' = "failed"
    /\ w_pc' = "done"
    /\ UNCHANGED <<target_mode, env, CACHE, results, issues, installs,
                   w_i, errors, cancelled, launched, outcomes, observed_at, run_disk0,
                   run_writes, complete_calls, disk, installRest>>

\* _install_complete()
InstallComplete ==
    /\ w_pc = "call_complete"
    /\ is_installing' = FALSE
    /\ \E r \in {IF target_mode # "none"
                  THEN [mode |-> target_mode, disk |-> disk, writes |-> 0]
                  ELSE With(load_config(disk), LAMBDA l :
                           [mode |-> ModeOf(l.config), disk |-> l.disk,
                            writes |-> Len(l.writes)])} :
       \E s \in {show_success_for_mode(r.mode, TRUE, r.disk, env, CACHE)} :
          /\ disk' = s.disk
          /\ CACHE' = s.cache
          /\ run_writes' = run_writes + r.writes + s.writes
    /\ scr' = "success"
    /\ complete_calls' = complete_calls + 1
    /\ w_pc' = "done"
    /\ UNCHANGED <<target_mode, env, results, issues, installs,
                   w_i, errors, cancelled, launched, outcomes, observed_at, run_disk0,
                   installRest>>

\* the app quits (ctrl+c, App.action_quit) while the worker lives: the worker is cancelled
CancelWorker ==
    /\ w_pc \in {"loop", "running"}
    /\ ~cancelled
    /\ cancelled' = TRUE
    /\ UNCHANGED <<target_mode, env, CACHE, scr, results, issues, installs, is_installing,
                   w_pc, w_i, errors, launched, outcomes, observed_at, run_disk0,
                   run_writes, complete_calls, disk, installRest>>

\* action_go_back(): pops the screen unless an installation is running
GoBack ==
    /\ scr \in {"issues", "status", "success", "failed"}
    /\ ~is_installing
    /\ scr' = "closed"
    /\ UNCHANGED <<target_mode, env, CACHE, results, issues, installs, is_installing,
                   workerVars, disk, installRest>>

NextInstall ==
    \/ RunInitialChecks
    \/ ApplyResults
    \/ StartInstallation
    \/ WorkerEndOfPlan
    \/ WorkerObservesCancel
    \/ WorkerLaunchStep
    \/ StepFinishes
    \/ InstallFailed
    \/ InstallComplete
    \/ CancelWorker
    \/ GoBack

SpecInstall == InitInstall /\ [][NextInstall]_vars

\* ------------------------------------------- hardware.py called from threads
\* the UI thread reads the descriptor (SettingsScreen) and saves a finished setup;
\* thread workers refresh it (VocalsScreen, SetupScreen) and ask for the suggestion
ProbeOps(t) ==
    IF t = "main" THEN {"get_hw_info", "show_success_for_mode"}
    ELSE {"refresh_vram", "get_suggested_setup"}

\* machines that differ in what the probes find
ProbeMachines ==
    {Machine(TRUE, FALSE, TRUE, TRUE, FALSE, <<0, 0>>),    \* CPU box
     Machine(TRUE, FALSE, TRUE, TRUE, TRUE, <<8, 9>>),     \* GPU box with CPU-only torch
     Machine(TRUE, TRUE, TRUE, TRUE, TRUE, <<8, 9>>)}      \* GPU box, CUDA torch works

ProbeDisks == {FileMissing, File(StoredRecord(S_cpu, TRUE)), File(StoredRecord(S_gpu, FALSE))}

\* the module is imported, nothing detected yet; the UI thread and a worker thread
InitProbe ==
    /\ env \in ProbeMachines
    /\ disk \in ProbeDisks
    /\ disk_before = disk
    /\ CACHE = CACHE0
    /\ ProbeIdle
    /\ target_mode = "none"
    /\ scr = "checking"
    /\ results = NoResults
    /\ issues = <<>>
    /\ installs = <<>>
    /\ is_installing = FALSE
    /\ w_pc = "idle"
    /\ w_i = 0
    /\ errors = <<>>
    /\ cancelled = FALSE
    /\ launched = <<>>
    /\ outcomes = <<>>
    /\ observed_at = 0
    /\ run_disk0 = disk
    /\ run_writes = 0
    /\ complete_calls = 0
    /\ ConfigIdle
    /\ SelectIdle
    /\ SeparationIdle
    /\ DownloadIdle
    /\ CaptureIdle

probeRest == <<cfg_in, cfg_op, cfg_ret, cfg_writes, cfg_path,
               disk_before, DEFAULT_recent, selectVars,
               separationVars, downloadVars, captureVars, target_mode,
               env, scr, results, issues, installs,
               is_installing, workerVars>>

\* the GPU probes one detection consults: torch.cuda when torch imports and the
\* config does not force the CPU, nvidia-smi when that found no device
probes_consulted(force_cpu, e) ==
    IF force_cpu THEN {}
    ELSE (IF e.torch THEN {"torch.cuda"} ELSE {})
         \cup (IF e.torch /\ e.cuda_build /\ e.nvgpu THEN {} ELSE {"nvidia-smi"})

\* the fallback branch assigns no gpu_vram
writes_vram(found) == found.hw_info.device_short # "GPU (no CUDA torch)"

\* the assignments to _CACHE after the probes, in program order
WriteOrder == <<"w_type", "w_name", "w_hw", "w_accel", "w_checked">>

write_field(pc, found, cache) ==
    IF pc = "w_type" THEN [cache EXCEPT !.gpu_type = found.gpu_type]
    ELSE IF pc = "w_name"
         THEN [cache EXCEPT !.gpu_name = found.gpu_name,
                            !.gpu_vram = IF writes_vram(found) THEN found.gpu_vram ELSE @]
    ELSE IF pc = "w_hw" THEN [cache EXCEPT !.hw_info = found.hw_info]
    ELSE IF pc = "w_accel" THEN [cache EXCEPT !.accel = found.accel]
    ELSE [cache EXCEPT !.checked = TRUE]

after_write(pc) ==
    IF pc = "w_checked" THEN "read"
    ELSE WriteOrder[(CHOOSE i \in 1..Len(WriteOrder) : WriteOrder[i] = pc) + 1]

\* a thread enters one of the calls; refresh_vram first clears "checked", and
\* _show_success_for_mode saves the mode's force_cpu and then calls refresh_vram
ProbeCall(t) ==
    /\ p_pc[t] = "idle"
    /\ p_calls[t] < MaxCalls
    /\ \E op \in ProbeOps(t) :
          /\ p_op' = [p_op EXCEPT ![t] = op]
          /\ IF op = "refresh_vram"
             THEN /\ CACHE' = [CACHE EXCEPT !.checked = FALSE]
                  /\ detections' = 0
                  /\ p_seen' = {}
                  /\ UNCHANGED disk
             ELSE IF op = "show_success_for_mode"
             THEN /\ \E mode \in {"gpu", "cpu"} :
                        disk' = show_success_for_mode(mode, FALSE, disk, env, CACHE).disk
                  /\ CACHE' = [CACHE EXCEPT !.checked = FALSE]
                  /\ detections' = 0
                  /\ p_seen' = {}
             ELSE UNCHANGED <<CACHE, detections, p_seen, disk>>
    /\ p_calls' = [p_calls EXCEPT ![t] = p_calls[t] + 1]
    /\ p_pc' = [p_pc EXCEPT ![t] = "check"]
    /\ UNCHANGED <<p_ret, p_new, p_first, p_found, p_views, probeRest>>

\* _ensure_init: if _CACHE["checked"]: return
ProbeCheck(t) ==
    /\ p_pc[t] = "check"
    /\ p_pc' = [p_pc EXCEPT ![t] = IF CACHE.checked THEN "read" ELSE "detect"]
    /\ UNCHANGED <<p_op, p_calls, p_ret, p_new, p_first, detections, p_seen, p_found,
                   p_views, CACHE, disk, probeRest>>

\* _ensure_init past the test: load_config, the torch and onnxruntime imports with
\* their assignments, and the GPU probes
ProbeDetect(t) ==
    /\ p_pc[t] = "detect"
    /\ \E r \in {load_config(disk)} :
       \E found \in {detect(Truthy(r.config.force_cpu), env, CACHE)} :
          /\ CACHE' = [CACHE EXCEPT !.torch_available = found.torch_available,
                                    !.ort_available = found.ort_available]
          /\ p_new' = [p_new EXCEPT ![t] = found]
          /\ p_found' = p_found \cup
                 {[force_cpu |-> Truthy(r.config.force_cpu), env |-> env,
                   probes |-> probes_consulted(Truthy(r.config.force_cpu), env),
                   found |-> found]}
          /\ disk' = r.disk
    /\ detections' = detections + 1
    /\ p_pc' = [p_pc EXCEPT ![t] = "w_type"]
    /\ UNCHANGED <<p_op, p_calls, p_ret, p_first, p_seen, p_views, probeRest>>

\* one assignment of _ensure_init into the shared _CACHE dict
ProbeWrite(t) ==
    /\ p_pc[t] \in {WriteOrder[i] : i \in 1..Len(WriteOrder)}
    /\ CACHE' = write_field(p_pc[t], p_new[t], CACHE)
    /\ p_pc' = [p_pc EXCEPT ![t] = after_write(p_pc[t])]
    /\ UNCHANGED <<p_op, p_calls, p_ret, p_new, p_first, detections, p_seen, p_found,
                   p_views, disk, probeRest>>

\* the first read after _ensure_init: _CACHE["hw_info"], or _CACHE["gpu_type"] in
\* get_suggested_setup, which answers at once unless that is "nvidia"
ProbeReturn(t) ==
    /\ p_pc[t] = "read"
    /\ IF p_op[t] = "get_suggested_setup"
       THEN /\ p_first' = [p_first EXCEPT ![t] = CACHE.gpu_type]
            /\ IF CACHE.gpu_type = "nvidia"
               THEN /\ p_pc' = [p_pc EXCEPT ![t] = "read_name"]
                    /\ UNCHANGED p_views
               ELSE /\ p_pc' = [p_pc EXCEPT ![t] = "idle"]
                    /\ p_views' = p_views \cup {[kind |-> "cpu", name |-> "none"]}
            /\ UNCHANGED <<p_ret, p_seen>>
       ELSE /\ p_ret' = [p_ret EXCEPT ![t] = CACHE.hw_info]
            /\ p_seen' = p_seen \cup {CACHE.hw_info}
            /\ p_pc' = [p_pc EXCEPT ![t] = "idle"]
            /\ UNCHANGED <<p_first, p_views>>
    /\ UNCHANGED <<p_op, p_calls, p_new, detections, p_found, CACHE, disk, probeRest>>

\* get_suggested_setup: return "gpu", f"GPU mode ({_CACHE['gpu_name']})"
ProbeReadName(t) ==
    /\ p_pc[t] = "read_name"
    /\ p_views' = p_views \cup {[kind |-> "gpu", name |-> CACHE.gpu_name]}
    /\ p_pc' = [p_pc EXCEPT ![t] = "idle"]
    /\ UNCHANGED <<p_op, p_calls, p_ret, p_new, p_first, detections, p_seen, p_found,
                   CACHE, disk, probeRest>>

NextProbe ==
    \E t \in Threads :
        \/ ProbeCall(t)
        \/ ProbeCheck(t)
        \/ ProbeDetect(t)
        \/ ProbeWrite(t)
        \/ ProbeReturn(t)
        \/ ProbeReadName(t)

SpecProbe == InitProbe /\ [][NextProbe]_vars

\* ------------------------------------------ hardware.py called by one thread
\* the machines above, a GPU box without torch, and CUDA boxes over five tiers
DetectMachines ==
    ProbeMachines \cup
    {Machine(FALSE, FALSE, FALSE, TRUE, TRUE, <<8, 9>>),
     Machine(TRUE, TRUE, TRUE, TRUE, TRUE, <<6, 1>>),
     Machine(TRUE, TRUE, TRUE, TRUE, TRUE, <<7, 0>>),
     Machine(TRUE, TRUE, TRUE, TRUE, TRUE, <<8, 6>>),
     Machine(TRUE, TRUE, TRUE, TRUE, TRUE, <<9, 0>>)}

InitDetect ==
    /\ env \in DetectMachines
    /\ disk \in InstallDisks
    /\ disk_before = disk
    /\ CACHE = CACHE0
    /\ ProbeIdle
    /\ target_mode = "none"
    /\ scr = "checking"
    /\ results = NoResults
    /\ issues = <<>>
    /\ installs = <<>>
    /\ is_installing = FALSE
    /\ w_pc = "idle"
    /\ w_i = 0
    /\ errors = <<>>
    /\ cancelled = FALSE
    /\ launched = <<>>
    /\ outcomes = <<>>
    /\ observed_at = 0
    /\ run_disk0 = disk
    /\ run_writes = 0
    /\ complete_calls = 0
    /\ ConfigIdle
    /\ SelectIdle
    /\ SeparationIdle
    /\ DownloadIdle
    /\ CaptureIdle

detectRest == <<p_pc, p_calls, p_new, p_first, detections, p_seen, p_views, probeRest>>

\* what one _ensure_init() adds to the history: nothing when the cache is checked
found_by(d, e, cache) ==
    IF cache.checked THEN {}
    ELSE With(Truthy(load_config(d).config.force_cpu), LAMBDA force_cpu :
              {[force_cpu |-> force_cpu, env |-> e,
                probes |-> probes_consulted(force_cpu, e),
                found |-> detect(force_cpu, e, cache)]})

\* get_hw_info()
GetHwInfoCall ==
    /\ \E r \in {ensure_init(disk, env, CACHE)} :
          /\ CACHE' = r.cache
          /\ disk' = r.disk
          /\ p_ret' = [p_ret EXCEPT !["main"] = r.cache.hw_info]
    /\ p_found' = p_found \cup found_by(disk, env, CACHE)
    /\ p_op' = [p_op EXCEPT !["main"] = "get_hw_info"]
    /\ UNCHANGED detectRest

\* refresh_vram()
RefreshVramCall ==
    /\ \E r \in {refresh_vram(disk, env, CACHE)} :
          /\ CACHE' = r.cache
          /\ disk' = r.disk
          /\ p_ret' = [p_ret EXCEPT !["main"] = r.cache.hw_info]
    /\ p_found' = p_found \cup found_by(disk, env, [CACHE EXCEPT !.checked = FALSE])
    /\ p_op' = [p_op EXCEPT !["main"] = "refresh_vram"]
    /\ UNCHANGED detectRest

\* SetupScreen._show_success_for_mode(mode): save the mode, then refresh_vram()
ShowSuccessCall ==
    /\ \E mode \in {"gpu", "cpu"} :
       \E r \in {show_success_for_mode(mode, TRUE, disk, env, CACHE)} :
          /\ CACHE' = r.cache
          /\ disk' = r.disk
          /\ p_found' = p_found \cup
                 found_by(show_success_for_mode(mode, FALSE, disk, env, CACHE).disk, env,
                          [CACHE EXCEPT !.checked = FALSE])
    /\ p_op' = [p_op EXCEPT !["main"] = "show_success_for_mode"]
    /\ UNCHANGED <<p_ret, detectRest>>

NextDetect ==
    \/ GetHwInfoCall
    \/ RefreshVramCall
    \/ ShowSuccessCall

SpecDetect == InitDetect /\ [][NextDetect]_vars

\* ---------------------------------------------------- separation operations
InputStems == {<<"song">>, <<"song", " (original)">>, <<"vocal take">>}
InputExts == {".wav", ".mp3"}
Durations == {PadFloor - 1, PadFloor}

\* p with " (n)" before the extension
Numbered(p, n) == [p EXCEPT !.num = n]

\* the names a job on input may want: both artifacts, numbered ones, the backup
Candidates(input) ==
    LET v == FileName("", Append(clean_stem(input.stem), " [vocals]"), input.ext)
        i == FileName("", Append(clean_stem(input.stem), " [instrumental]"), input.ext)
    IN {v, i, backup_name(input)} \cup {Numbered(v, n) : n \in 1..MaxSuffix}

\* the directories a job may start in: earlier results and a backup, a numbered
\* result only beside the results with the lower numbers
Directories(input) ==
    {P \in SUBSET Candidates(input) :
        \A n \in P : n.num > 0 =>
            /\ Numbered(n, 0) \in P
            /\ \A m \in 1..(n.num - 1) : Numbered(n, m) \in P}

\* the path text of the input file, as handed to add_recent_file
InputPath == S_a

\* what get_hw_info() holds when the job runs: a CPU box, a GPU box with CUDA torch
JobDescriptors ==
    {NoDescriptor,
     [gpu_type |-> "nvidia", fp16_capable |-> TRUE, fp8_capable |-> FALSE,
      tensor_cores |-> TRUE, vram |-> "8.0 GB"]}

\* a file of the directory
AFile(n, c, d) == [name |-> n, content |-> c, dur |-> d]

\* run_separation(input_file, model_name, progress_callback) is called
InitSeparation ==
    /\ sep_input \in {FileName("", st, ext) : st \in InputStems, ext \in InputExts}
    /\ duration \in Durations
    /\ PYDUB_OK \in BOOLEAN
    /\ padded = FALSE
    /\ \E P \in Directories(sep_input) :
          fs = {AFile(sep_input, "input", duration)}
               \cup {AFile(n, "old", duration) : n \in P \ {sep_input}}
    /\ sep_pc = "start"
    /\ output_files = <<>>
    /\ sep_j = 0
    /\ generated_files = <<>>
    /\ sep_result = "none"
    /\ finalized = <<>>
    /\ fs_before = fs
    /\ accel = "free"
    /\ ui_report = "none"
    /\ phases = <<"pending">>
    /\ events = <<>>
    /\ last_percent = NoPercent
    /\ writes = 0
    /\ loaded_model = "none"
    /\ run_settings = NoSettings
    /\ hw_info \in JobDescriptors
    /\ sel_pc = "idle"
    /\ sel_model = "none"
    /\ sel_settings = NoSettings
    /\ disk = FileMissing
    /\ disk_before = disk
    /\ ConfigIdle
    /\ InstallIdle
    /\ DownloadIdle
    /\ CaptureIdle
    /\ ProbeIdle

separationRest == <<cfg_in, cfg_op, cfg_ret, cfg_writes, cfg_path,
               disk_before, selectVars, installVars,
                    downloadVars, probeVars, captureVars>>

\* what a job never changes
jobInputs == <<sep_input, duration, PYDUB_OK, fs_before>>

\* the file run_separation hands to the library
processing_input == IF padded THEN temp_name(sep_input) ELSE sep_input

\* the stems separator.separate writes for the file it was given
vocals_file(processing) ==
    [pre |-> processing.pre, stem |-> Append(processing.stem, "_(Vocals)"), num |-> 0,
     ext |-> ".wav"]
instrumental_file(processing) ==
    [pre |-> processing.pre, stem |-> Append(processing.stem, "_(Instrumental)"), num |-> 0,
     ext |-> ".wav"]

SeparateOutcomes == {"two", "reversed", "vocals only", "listed but missing", "empty", "raise"}

\* the except handler of run_separation: drop the temp file, return False
handler_files(files) == IF padded THEN Remove(files, temp_name(sep_input)) ELSE files

\* "Padding logic": AudioSegment.from_file, and the padded export for a short input
PadInput ==
    /\ sep_pc = "start"
    /\ \E raised \in BOOLEAN :
          IF PYDUB_OK /\ raised THEN
              /\ sep_result' = "false"
              /\ sep_pc' = "returned"
              /\ phases' = Append(phases, "failed")
              /\ UNCHANGED <<fs, padded>>
          ELSE IF PYDUB_OK /\ duration < PadFloor THEN
              /\ fs' = Remove(fs, temp_name(sep_input))
                        \cup {AFile(temp_name(sep_input), "padded",
                                    duration + padding_for(duration))}
              /\ padded' = TRUE
              /\ phases' = Append(phases, "padding")
              /\ sep_pc' = "load"
              /\ UNCHANGED sep_result
          ELSE
              /\ sep_pc' = "load"
              /\ UNCHANGED <<fs, padded, phases, sep_result>>
    /\ UNCHANGED <<jobInputs, output_files, sep_j, generated_files, finalized, accel,
                   ui_report, events, last_percent, writes, loaded_model, run_settings,
                   disk, DEFAULT_recent, separationRest>>

\* "Configure Engine", Separator(**sep_config), the 'loading' callback, load_model
LoadModel ==
    /\ sep_pc = "load"
    /\ events' = Append(events, [stage |-> load_stage, percent |-> -1])
    /\ loaded_model' = TARGET_MODEL
    /\ run_settings' = get_model_settings(TARGET_MODEL, NoDescriptor)
    /\ accel' = "held"
    /\ \E raised \in BOOLEAN :
          IF raised THEN
              /\ fs' = handler_files(fs)
              /\ sep_result' = "false"
              /\ sep_pc' = "returned"
              /\ phases' = phases \o <<"loading", "failed">>
          ELSE
              /\ sep_pc' = "process"
              /\ phases' = Append(phases, "loading")
              /\ UNCHANGED <<fs, sep_result>>
    /\ UNCHANGED <<jobInputs, padded, output_files, sep_j, generated_files, finalized,
                   ui_report, last_percent, writes, disk, DEFAULT_recent, separationRest>>

\* the 'processing' callback at 0 percent; sys.stderr = capture
BeginProcessing ==
    /\ sep_pc = "process"
    /\ events' = Append(events, [stage |-> "processing", percent |-> 0])
    /\ phases' = Append(phases, "processing")
    /\ sep_pc' = "separating"
    /\ UNCHANGED <<jobInputs, padded, fs, output_files, sep_j, generated_files, sep_result,
                   finalized, accel, ui_report, last_percent, writes, loaded_model,
                   run_settings, disk, DEFAULT_recent, separationRest>>

\* the percentages tqdm prints
Percents == {50}

\* TqdmCapture.write of a tqdm line while separator.separate runs
TqdmWrite ==
    /\ sep_pc = "separating"
    /\ writes < MaxWrites
    /\ writes' = writes + 1
    /\ \E percent \in Percents :
          IF percent # last_percent THEN
              /\ last_percent' = percent
              /\ events' = Append(events, [stage |-> "processing", percent |-> percent])
          ELSE UNCHANGED <<last_percent, events>>
    /\ UNCHANGED <<jobInputs, padded, fs, sep_pc, output_files, sep_j, generated_files,
                   sep_result, finalized, accel, ui_report, phases, loaded_model,
                   run_settings, disk, DEFAULT_recent, separationRest>>

\* separator.separate(processing_input) returns or raises
Separate ==
    /\ sep_pc = "separating"
    /\ \E out \in SeparateOutcomes :
       \E len \in {IF padded THEN duration + padding_for(duration) ELSE duration} :
       \E v \in {AFile(vocals_file(processing_input), "vocals", len)} :
       \E i \in {AFile(instrumental_file(processing_input), "instrumental", len)} :
          IF out = "raise" THEN
              /\ fs' = handler_files(fs)
              /\ sep_result' = "false"
              /\ sep_pc' = "returned"
              /\ phases' = Append(phases, "failed")
              /\ UNCHANGED output_files
          ELSE IF out = "empty" THEN
              /\ sep_result' = "false"
              /\ sep_pc' = "returned"
              /\ phases' = Append(phases, "failed")
              /\ UNCHANGED <<fs, output_files>>
          ELSE
              /\ fs' = IF out \in {"vocals only", "listed but missing"}
                       THEN Remove(fs, v.name) \cup {v}
                       ELSE Remove(Remove(fs, v.name), i.name) \cup {v, i}
              /\ output_files' = IF out = "vocals only" THEN <<v.name>>
                                 ELSE IF out = "reversed" THEN <<i.name, v.name>>
                                 ELSE <<v.name, i.name>>
              /\ sep_pc' = "backup"
              /\ phases' = Append(phases, "finalizing")
              /\ UNCHANGED sep_result
    /\ UNCHANGED <<jobInputs, padded, sep_j, generated_files, finalized, accel, ui_report,
                   events, last_percent, writes, loaded_model, run_settings, disk,
                   DEFAULT_recent, separationRest>>

\* "Backup Original": rename the input to "... (original)" unless marked or taken
BackupOriginal ==
    /\ sep_pc = "backup"
    /\ \E renamed \in BOOLEAN :
          fs' = IF should_backup(sep_input, fs) /\ renamed
                THEN Rename(fs, sep_input, backup_name(sep_input))
                ELSE fs
    /\ sep_pc' = "rename"
    /\ sep_j' = 1
    /\ UNCHANGED <<jobInputs, padded, output_files, generated_files, sep_result, finalized,
                   accel, ui_report, phases, events, last_percent, writes, loaded_model,
                   run_settings, disk, DEFAULT_recent, separationRest>>

\* AudioSegment.from_file(src)[:original_duration_ms].export(src): the file cut to d ms
Trim(files, src, d) ==
    {IF f.name = src THEN [f EXCEPT !.dur = Min(f.dur, d)] ELSE f : f \in files}

FinalizeOutcomes == {"ok", "remove raises", "rename raises"}

\* one iteration of "for f in output_files": trim, pick the suffix, remove, rename
FinalizeArtifact ==
    /\ sep_pc = "rename"
    /\ sep_j <= Len(output_files)
    /\ \E src \in {output_files[sep_j]} :
       \E trimmed \in BOOLEAN :
       \E out \in FinalizeOutcomes :
       \E fs1 \in {IF padded /\ PYDUB_OK /\ trimmed THEN Trim(fs, src, duration) ELSE fs} :
       \E dst \in {destination(dst_name(sep_input, src), fs1)} :
          IF ~Exists(fs, src) THEN
              /\ sep_j' = sep_j + 1
              /\ UNCHANGED <<fs, generated_files, finalized, sep_pc, sep_result, phases>>
          ELSE IF out = "remove raises" /\ Exists(fs1, dst) THEN
              /\ fs' = handler_files(fs1)
              /\ sep_result' = "false"
              /\ sep_pc' = "returned"
              /\ phases' = Append(phases, "failed")
              /\ UNCHANGED <<sep_j, generated_files, finalized>>
          ELSE IF out = "rename raises" THEN
              /\ fs' = handler_files(Remove(fs1, dst))
              /\ sep_result' = "false"
              /\ sep_pc' = "returned"
              /\ phases' = Append(phases, "failed")
              /\ UNCHANGED <<sep_j, generated_files, finalized>>
          ELSE
              /\ fs' = Rename(IF Exists(fs1, dst) THEN Remove(fs1, dst) ELSE fs1, src, dst)
              /\ generated_files' = Append(generated_files, dst)
              /\ finalized' = Append(finalized,
                                      [src |-> src, p |-> dst_name(sep_input, src),
                                       dst |-> dst, present |-> NamesIn(fs),
                                       trimmed |-> padded /\ PYDUB_OK /\ trimmed])
              /\ sep_j' = sep_j + 1
              /\ UNCHANGED <<sep_pc, sep_result, phases>>
    /\ UNCHANGED <<jobInputs, padded, output_files, accel, ui_report, events, last_percent,
                   writes, loaded_model, run_settings, disk, DEFAULT_recent, separationRest>>

\* after the loop: drop the temp file, add_recent_file(input_file), return True
FinishJob ==
    /\ sep_pc = "rename"
    /\ sep_j > Len(output_files)
    /\ fs' = IF padded THEN Remove(fs, temp_name(sep_input)) ELSE fs
    /\ \E r \in {add_recent_file(disk, InputPath)} :
          /\ disk' = r.disk
          /\ DEFAULT_recent' = r.DEFAULT_recent
    /\ sep_result' = "true"
    /\ sep_pc' = "returned"
    /\ phases' = Append(phases, "succeeded")
    /\ UNCHANGED <<jobInputs, padded, output_files, sep_j, generated_files, finalized,
                   accel, ui_report, events, last_percent, writes, loaded_model,
                   run_settings, separationRest>>

\* _separation_worker after run_separation came back: the returned value is dropped,
\* add_recent_file(input_file), then _show_success
SeparationWorkerReports ==
    /\ sep_pc = "returned"
    /\ \E r \in {add_recent_file(disk, InputPath)} :
          /\ disk' = r.disk
          /\ DEFAULT_recent' = r.DEFAULT_recent
    /\ ui_report' = worker_report(sep_result)
    /\ sep_pc' = "reported"
    /\ UNCHANGED <<jobInputs, padded, fs, output_files, sep_j, generated_files, sep_result,
                   finalized, accel, phases, events, last_percent, writes, loaded_model,
                   run_settings, separationRest>>

NextSeparation ==
    \/ PadInput
    \/ LoadModel
    \/ BeginProcessing
    \/ TqdmWrite
    \/ Separate
    \/ BackupOriginal
    \/ FinalizeArtifact
    \/ FinishJob
    \/ SeparationWorkerReports

SpecSeparation == InitSeparation /\ [][NextSeparation]_vars

\* ------------------------------------------------------- capture operations
\* texts with no marker (blank or not), one marker, two markers
CaptureTexts ==
    {Text(<<>>, TRUE), Text(<<>>, FALSE), Text(<<30>>, FALSE), Text(<<50>>, FALSE),
     Text(<<30, 50>>, FALSE), Text(<<50, 30>>, FALSE)}

\* a capture is constructed, with or without a callback
InitCapture ==
    /\ capture \in {TqdmCapture(cb) : cb \in BOOLEAN}
    /\ cap_written = <<>>
    /\ disk = FileMissing
    /\ disk_before = disk
    /\ ConfigIdle
    /\ SelectIdle
    /\ InstallIdle
    /\ SeparationIdle
    /\ DownloadIdle
    /\ ProbeIdle

captureRest == <<configVars, selectVars, installVars, separationVars, downloadVars,
                 probeVars>>

\* capture.write(text)
CaptureWrite ==
    /\ Len(cap_written) < MaxTexts
    /\ \E text \in CaptureTexts :
          /\ capture' = write(capture, text)
          /\ cap_written' = Append(cap_written, text)
    /\ UNCHANGED captureRest

NextCapture == CaptureWrite

SpecCapture == InitCapture /\ [][NextCapture]_vars

\* ------------------------------------------------------ download operations
Titles == {"t1"}

\* the text yt-dlp may print between delimiters: an announcement, a percentage,
\* anything else
Texts ==
    {Chunk("text", t, <<>>) : t \in Titles}
    \cup {Chunk("text", NoTitle, <<Decimal(45, <<>>)>>),
          Chunk("text", NoTitle, <<Decimal(45, <<3>>)>>), Chunk("text", NoTitle, <<>>)}

Chunks == {LF, CR} \cup Texts

\* _download_worker(url) is started
InitDownload ==
    /\ download_mode \in {"audio", "video"}
    /\ dl_pc = "launch"
    /\ destination_count = 0
    /\ download_title = NoTitle
    /\ line_count = 0
    /\ buf = <<>>
    /\ stream = <<>>
    /\ processed = <<>>
    /\ bars = <<>>
    /\ dl_shown = "none"
    /\ disk = FileMissing
    /\ disk_before = disk
    /\ ConfigIdle
    /\ SelectIdle
    /\ InstallIdle
    /\ SeparationIdle
    /\ ProbeIdle
    /\ CaptureIdle

downloadRest == <<configVars, selectVars, installVars, separationVars, probeVars, captureVars>>

\* subprocess.Popen(cmd): yt-dlp starts, or is not found
Launch ==
    /\ dl_pc = "launch"
    /\ \E found \in BOOLEAN :
          /\ dl_pc' = IF found THEN "reading" ELSE "done"
          /\ dl_shown' = IF found THEN "none" ELSE "error"
    /\ UNCHANGED <<download_mode, destination_count, download_title, line_count, buf,
                   stream, processed, bars, downloadRest>>

\* one pass of the read loop: a delimiter after an empty buf is skipped, a
\* delimiter after text ends a line, which is decoded, counted and looked at;
\* anything else is appended to buf
ReadChunk ==
    /\ dl_pc = "reading"
    /\ Len(stream) < MaxBytes
    /\ \E chunk \in Chunks :
          /\ stream' = Append(stream, chunk)
          /\ IF ~IsDelimiter(chunk)
             THEN /\ buf' = Append(buf, chunk)
                  /\ UNCHANGED <<line_count, destination_count, download_title, processed,
                                 bars>>
             ELSE IF buf = <<>>
             THEN UNCHANGED <<buf, line_count, destination_count, download_title,
                              processed, bars>>
             ELSE \E line \in {decode(buf)} :
                  \E count \in {IF IsDestination(line) THEN destination_count + 1
                                 ELSE destination_count} :
                     /\ buf' = <<>>
                     /\ processed' = Append(processed, buf)
                     /\ line_count' = line_count + 1
                     /\ destination_count' = count
                     /\ download_title' = IF IsDestination(line) /\ count = 1
                                           THEN line.dest ELSE download_title
                     /\ bars' = IF line.pct # <<>>
                                 THEN Append(bars, [bar |-> bar_for(download_mode, count),
                                                    pct |-> float(line.pct[1]), count |-> count,
                                                    parsed |-> TRUE])
                                 ELSE bars
    /\ UNCHANGED <<download_mode, dl_pc, dl_shown, downloadRest>>

\* EOF on stdout, process.wait(): on return code 0 fill the bars and show success
ProcessExits ==
    /\ dl_pc = "reading"
    /\ \E ok \in BOOLEAN :
          /\ bars' = IF ~ok THEN bars
                      ELSE (IF download_mode = "video"
                            THEN Append(bars, [bar |-> "video-bar", pct |-> Number(100, 0),
                                               count |-> destination_count,
                                               parsed |-> FALSE])
                            ELSE bars)
                           \o <<[bar |-> "audio-bar", pct |-> Number(100, 0),
                                 count |-> destination_count, parsed |-> FALSE]>>
          /\ dl_shown' = IF ok THEN "success" ELSE "error"
    /\ dl_pc' = "done"
    /\ UNCHANGED <<download_mode, destination_count, download_title, line_count, buf,
                   stream, processed, downloadRest>>

NextDownload == Launch \/ ReadChunk \/ ProcessExits

SpecDownload == InitDownload /\ [][NextDownload]_vars

\* ------------------------------------------------------- claims (config)
ModeKeys == {"recent_files", "max_recent", "force_cpu", "setup_type"}

\* setup_type = gpu => force_cpu = false, and force_cpu = true => setup_type = cpu
Coherent(c) ==
    /\ c.setup_type = JStr(S_gpu) => c.force_cpu = JBool(FALSE)
    /\ c.force_cpu = JBool(TRUE) => c.setup_type = JStr(S_cpu)

\* the items of the input's recent_files (none when it is no list)
InputItems(c) == IF c.recent_files.t = "list" THEN c.recent_files.l ELSE <<>>

\* the places of the input list holding the first occurrence of a non-empty trimmed str
FirstPlaces(l) ==
    {k \in 1..Len(l) :
        /\ l[k].t = "str" /\ strip(l[k].s) # <<>>
        /\ \A j \in 1..(k - 1) : ~(l[j].t = "str" /\ strip(l[j].s) = strip(l[k].s))}

\* out lists, in input order, the first `cap` first occurrences of l, trimmed
FirstOccurrenceOrder(out, l, cap) ==
    /\ Len(out) = Min(Cardinality(FirstPlaces(l)), cap)
    /\ \A i \in 1..Len(out) :
          \E k \in FirstPlaces(l) :
              /\ Cardinality({j \in FirstPlaces(l) : j <= k}) = i
              /\ out[i] = IStr(strip(l[k].s))

\* the schema of a normalized record, as a function of the input it came from
SchemaOf(out, in) ==
    /\ out.kind = "dict"
    /\ KeySet(out) = ModeKeys
    /\ out.setup_type \in {JStr(S_cpu), JStr(S_gpu)}
    /\ out.max_recent.t = "int"
    /\ out.max_recent.n >= MaxRecentFloor /\ out.max_recent.n <= MaxRecentCeil
    /\ out.force_cpu.t = "bool"
    /\ out.recent_files.t = "list"
    /\ FirstOccurrenceOrder(out.recent_files.l, InputItems(in), out.max_recent.n)

\* a record that satisfies the schema whatever it came from
Schema(out) ==
    /\ SchemaOf(out, out)
    /\ Coherent(out)

\* C4: normalize is idempotent and its output is coherent; an input with
\* setup_type = gpu and force_cpu = true comes out as (gpu, force_cpu = false).
C4_NormalizeIdempotentCoherent ==
    cfg_op = "normalize" =>
        /\ normalize_config(cfg_ret) = cfg_ret
        /\ Coherent(cfg_ret)
        /\ (cfg_in.kind = "dict" /\ cfg_in.setup_type = JStr(S_gpu) /\ cfg_in.force_cpu = JBool(TRUE)
              => cfg_ret.setup_type = JStr(S_gpu) /\ cfg_ret.force_cpu = JBool(FALSE))

\* C5: normalize returns exactly the four schema keys, setup_type in {cpu, gpu},
\* max_recent in [1, 50], recent_files the distinct non-empty trimmed strings of the
\* input in first-occurrence order, capped to max_recent; save persists exactly
\* normalize(record), so every record written to config.json satisfies the schema.
C5_NormalizeSchemaAndSave ==
    /\ cfg_op = "normalize" => SchemaOf(cfg_ret, cfg_in)
    /\ cfg_op = "save" =>
          /\ cfg_writes = <<normalize_config(cfg_in)>>
          /\ disk = File(normalize_config(cfg_in))
    /\ \A k \in 1..Len(cfg_writes) : Schema(cfg_writes[k])

\* C6: load writes config.json iff the file is missing or the stored JSON differs from
\* its normalization, and then exactly once, with the record it returns.
C6_LoadWritesIffChanged ==
    cfg_op = "load" =>
        LET changed == \/ disk_before.st = "missing"
                       \/ /\ disk_before.st = "ok"
                          /\ disk_before.json # normalize_config(disk_before.json)
        IN /\ (cfg_writes # <<>>) <=> changed
           /\ changed => cfg_writes = <<cfg_ret>> /\ disk = File(cfg_ret)
           /\ ~changed => disk = disk_before

\* C7: loading an unreadable or invalid config (I/O error, malformed JSON, a top
\* level that is not an object) returns the defaults and leaves the file untouched.
C7_InvalidConfigLeftUntouched ==
    cfg_op = "load" /\ (disk_before.st = "corrupt" \/ (disk_before.st = "ok" /\ disk_before.json.kind # "dict")) =>
        /\ cfg_ret = DefaultWith(<<>>)
        /\ cfg_writes = <<>>
        /\ disk = disk_before

\* What does hold of the code, for the record: the same statements with the default
\* list still empty, with Python's == deciding "differs", and without the non-object case.
Pristine == DEFAULT_recent = <<>>

NormalizeIdempotentWhilePristine == Pristine => C4_NormalizeIdempotentCoherent

NormalizeSchemaWhilePristine == Pristine =>
    /\ cfg_op = "normalize" => SchemaOf(cfg_ret, cfg_in)
    /\ \A k \in 1..Len(cfg_writes) : Schema(cfg_writes[k])

LoadWritesIffPyUnequal ==
    cfg_op = "load" =>
        LET changed == \/ disk_before.st = "missing"
                       \/ /\ disk_before.st = "ok"
                          /\ ~DictEq(disk_before.json, normalize_config(disk_before.json))
        IN /\ (cfg_writes # <<>>) <=> changed
           /\ changed /\ Pristine => cfg_writes = <<cfg_ret>> /\ disk = File(cfg_ret)
           /\ ~changed => disk = disk_before

UnreadableConfigLeftUntouched ==
    cfg_op = "load" /\ disk_before.st = "corrupt" =>
        /\ cfg_ret = DEFAULT_CONFIG
        /\ cfg_writes = <<>>
        /\ disk = disk_before

RecentOf(d) == d.json.recent_files.l

IsPrefix(a, b) == Len(a) <= Len(b) /\ \A k \in 1..Len(a) : a[k] = b[k]

\* the file held a record that normalizing leaves as it is
NormalizedRecord(d) == d.st = "ok" /\ d.json.kind = "dict" /\ normalize_config(d.json) = d.json

\* what the claim says of one add_recent_file(p) that found the file d0 and left d1
RecentFirst(p, d0, d1) ==
    /\ d1.st = "ok"
    /\ RecentOf(d1) # <<>>
    /\ RecentOf(d1)[1] = IStr(p)
    /\ \A j, k \in 1..Len(RecentOf(d1)) : j # k => RecentOf(d1)[j] # RecentOf(d1)[k]
    /\ Len(RecentOf(d1)) <= d1.json.max_recent.n
    /\ IsPrefix(Tail(RecentOf(d1)), list_remove(RecentOf(d0), IStr(p)))

\* C34: after add_recent_file(p) on a normalized record, the persisted list starts
\* with p, has no duplicates and at most max_recent entries, and its other entries
\* are the previous ones without p, in their order, cut at the tail.
C34_RecentFirstUniqueCapped ==
    cfg_op = "add_recent" /\ NormalizedRecord(disk_before) =>
        RecentFirst(cfg_path, disk_before, disk)

\* What does hold of the code, for the record: the same for a path that strip() leaves as it is.
RecentFirstForStrippedPath ==
    cfg_op = "add_recent" /\ NormalizedRecord(disk_before) /\ strip(cfg_path) = cfg_path =>
        RecentFirst(cfg_path, disk_before, disk)

\* C38: DEFAULT_CONFIG is never mutated: after any sequence of load_config,
\* save_config and add_recent_file calls its recent_files list is still empty.
C38_DefaultConfigNeverMutated == DEFAULT_recent = <<>>

\* ------------------------------------------------------- claims (install)
\* the error entries a run over outcomes outs must hold, from step k on
RECURSIVE FailedSteps(_, _)
FailedSteps(outs, k) ==
    IF k > Len(outs) THEN <<>>
    ELSE (IF outs[k] # "ok" THEN <<[step |-> k, msg |-> outs[k]]>> ELSE <<>>)
         \o FailedSteps(outs, k + 1)

\* C1: a run that reaches the end of its plan without observing cancellation has
\* launched every step 1..n exactly once, in plan order, whatever failed before, and
\* its error list has exactly one entry per failed step (non-zero exit, timeout or
\* exception), naming the step's 1-based index, in step order.
C1_EveryStepRunsErrorsPerFailedStep ==
    w_pc \in {"call_failed", "call_complete", "done"} =>
        /\ launched = [k \in 1..Len(installs) |-> k]
        /\ Len(outcomes) = Len(installs)
        /\ errors = FailedSteps(outcomes, 1)

\* n = 3 and F = {2}: step 3 ran, one entry, for step 2
C1_Witness ==
    /\ w_pc = "done"
    /\ Len(installs) = 3
    /\ launched = <<1, 2, 3>>
    /\ outcomes = <<"ok", "exit code", "ok">>
    /\ errors = <<[step |-> 2, msg |-> "exit code"]>>

\* C2: an install run writes the config file only when it finished with an empty
\* error list: while it runs, and after it ended with a failed, timed-out or raising
\* step or at an observed cancellation, nothing was saved and the file is the one the
\* run started with; a write during a run means _install_complete ran on a plan whose
\* steps all ended ok.
C2_ModeSavedOnlyAfterCleanRun ==
    /\ (\/ w_pc \in {"loop", "running", "call_failed", "call_complete", "cancelled"}
        \/ (w_pc = "done" /\ errors # <<>>))
       => (run_writes = 0 /\ disk = run_disk0)
    /\ run_writes > 0 =>
        /\ w_pc = "done"
        /\ errors = <<>>
        /\ complete_calls = 1
        /\ Len(outcomes) = Len(installs)
        /\ \A k \in 1..Len(outcomes) : outcomes[k] = "ok"

\* a GPU switch with a timed-out step has ended and the file still says cpu
C2_Witness ==
    /\ w_pc = "done"
    /\ target_mode = "gpu"
    /\ \E k \in 1..Len(outcomes) : outcomes[k] = "Timed out"
    /\ errors # <<>>
    /\ run_writes = 0
    /\ disk = File(StoredRecord(S_cpu, FALSE))

C3_Boundaries ==
    /\ w_pc = "running" => Len(launched) = Len(outcomes) + 1
    /\ w_pc # "running" => Len(launched) = Len(outcomes)
    /\ observed_at # 0 =>
        /\ w_pc = "cancelled"
        /\ \A k \in 1..Len(launched) : launched[k] < observed_at
        /\ complete_calls = 0
        /\ run_writes = 0
        /\ disk = run_disk0

C3_Steps ==
    /\ w_pc = "running" => (w_pc' = "running" \/ Len(outcomes') = Len(outcomes) + 1)
    /\ (cancelled' /\ ~cancelled) => UNCHANGED <<w_pc, w_i, launched, outcomes, errors>>
    /\ observed_at' # observed_at => (w_pc = "loop" /\ cancelled)

\* C3: cancellation is observed only at the top of a loop iteration: a cancel request
\* changes nothing in a step that is running, which still ends with its own outcome;
\* once the worker has observed cancellation before step i, no step >= i is launched,
\* _install_complete is not invoked and the config file is not written.
C3_CancelOnlyBetweenSteps == [](C3_Boundaries) /\ [][C3_Steps]_vars

\* cancelled while step 1 ran: step 1 ended, the worker stopped before step 2
C3_Witness ==
    /\ observed_at = 2
    /\ w_pc = "cancelled"
    /\ launched = <<1>>
    /\ Len(outcomes) = 1
    /\ Len(installs) >= 3

\* the stored mode read by the check equals the target and the probe agrees
AlreadySatisfied ==
    \/ target_mode = "gpu" /\ results.current = "gpu" /\ verify_cuda_torch(env)
    \/ target_mode = "cpu" /\ results.current = "cpu" /\ ~verify_cuda_torch(env)

\* C9: when the stored mode equals the target mode and verify_cuda_torch confirms the
\* target runtime (gpu: available, cpu: not available), the collected plan is empty
\* and carries success_mode = target; the screen then never offers the install
\* button, no command is launched, and applying the results saves
\* (setup_type, force_cpu) for the target and shows success.
C9_SatisfiedPlanSkipsInstall ==
    (scr # "checking" /\ w_pc = "idle" /\ AlreadySatisfied) =>
        /\ results.installs = <<>>
        /\ results.success_mode = target_mode
        /\ launched = <<>>
        /\ scr \in {"collected", "success", "closed"}
        /\ scr # "collected" =>
            /\ installs = <<>>
            /\ disk.st = "ok"
            /\ ModeOf(disk.json) = target_mode
            /\ disk.json.force_cpu = JBool(target_mode = "cpu")

C9_Witness ==
    /\ target_mode = "gpu"
    /\ AlreadySatisfied
    /\ scr = "success"
    /\ w_pc = "idle"
    /\ launched = <<>>
    /\ disk.json.setup_type = JStr(S_gpu)

\* C35: every way the install worker ends leaves is_installing false, so that
\* action_go_back, refused while it is true, is not blocked for good: all steps
\* succeeded, some step failed, cancellation observed between steps.
C35_FlagResetWhenWorkerEnds == w_pc \in {"done", "cancelled"} => ~is_installing

ModeRecord(d) == <<d.json.setup_type, d.json.force_cpu>>

\* C36: a dependency check opened without a target mode that finds no issues leaves
\* setup_type and force_cpu in the config file as they were before the check.
C36_CleanCheckKeepsModeRecord ==
    /\ target_mode = "none"
    /\ NormalizedRecord(disk_before)
    /\ scr \in {"success", "status"}
    /\ w_pc = "idle"
    /\ issues = <<>>
    => disk.st = "ok" /\ ModeRecord(disk) = ModeRecord(disk_before)

\* the record _show_success_for_mode persists for a target mode
TargetRecord(mode) ==
    IF mode = "gpu" THEN <<JStr(S_gpu), JBool(FALSE)>> ELSE <<JStr(S_cpu), JBool(TRUE)>>

\* C39: after a switch run that ended with no errors the file holds (gpu, false) for
\* target gpu and (cpu, true) for target cpu, and the capability cache is the one a
\* detection computes from that saved force_cpu: the re-probe came after the save.
C39_SavedThenReprobed ==
    w_pc = "done" /\ errors = <<>> /\ scr = "success" /\ target_mode # "none"
    => /\ disk.st = "ok"
       /\ ModeRecord(disk) = TargetRecord(target_mode)
       /\ CACHE.checked
       /\ CACHE.hw_info = detect(Truthy(disk.json.force_cpu), env, CACHE).hw_info
       /\ CACHE.accel = detect(Truthy(disk.json.force_cpu), env, CACHE).accel

\* a gpu switch run completed on a box whose file forced the CPU before the run, and the
\* refreshed cache shows the GPU
C39_Witness ==
    /\ w_pc = "done"
    /\ errors = <<>>
    /\ scr = "success"
    /\ target_mode = "gpu"
    /\ run_disk0.st = "ok"
    /\ Truthy(run_disk0.json.force_cpu)
    /\ CACHE.hw_info.gpu_type = "nvidia"

\* ---------------------------------------------------- claims (separation)
\* C10: the path chosen for an artifact is the wanted path p when p does not exist,
\* otherwise p with " (n)" for the smallest n >= 1 whose path does not exist; it
\* never names a file that exists.
C10_UniquePathLowestFree ==
    \A k \in 1..Len(finalized) :
        LET r == finalized[k] IN
        /\ r.dst \notin r.present
        /\ r.p \notin r.present => r.dst = r.p
        /\ r.p \in r.present =>
            \E n \in 1..(MaxSuffix + 1) :
                /\ r.dst = Numbered(r.p, n)
                /\ \A m \in 1..(n - 1) : Numbered(r.p, m) \in r.present

\* C18: the planner decides "already satisfied" from the live probe alone: when the
\* probe shows the runtime matches the target (gpu with CUDA torch usable, cpu with
\* it not usable) the plan is empty and the target is marked satisfied, whatever
\* setup_type the config holds.
C18_SatisfiedDecidedByLiveProbe ==
    results # NoResults /\ launched = <<>> =>
        /\ target_mode = "gpu" /\ verify_cuda_torch(env) =>
              results.installs = <<>> /\ results.success_mode = "gpu"
        /\ target_mode = "cpu" /\ ~verify_cuda_torch(env) =>
              results.installs = <<>> /\ results.success_mode = "cpu"

\* C19: while a non-empty switch plan runs, steps are launched one at a time in plan
\* order, step i+1 only after step i has ended, and no install step is launched
\* before the uninstall step has ended.
C19_StepsInOrderUninstallFirst ==
    target_mode \in {"gpu", "cpu"} /\ installs # <<>> =>
        /\ launched = [k \in 1..Len(launched) |-> k]
        /\ Len(launched) <= Len(outcomes) + 1
        /\ \A k \in 1..Len(launched) :
              installs[launched[k]].op = "install" =>
                  \E j \in 1..(k - 1) :
                      /\ installs[launched[j]].op = "uninstall"
                      /\ j <= Len(outcomes)

\* the GPU plan with its uninstall ended and the torch install running
C19_Witness ==
    /\ target_mode = "gpu"
    /\ w_pc = "running"
    /\ launched = <<1, 2>>
    /\ Len(outcomes) = 1
    /\ installs[1].op = "uninstall"
    /\ installs[2].op = "install"

\* C20: a non-empty switch plan has exactly three steps: uninstall the torch set,
\* install the torch set from the target's index (cu128 for gpu, cpu for cpu),
\* install the backend package of the target mode.
C20_SwitchPlanHasThreeSteps ==
    target_mode \in {"gpu", "cpu"} /\ installs # <<>> =>
        /\ Len(installs) = 3
        /\ installs[1] = PipUninstallTorch
        /\ installs[2] = PipInstallTorch(IF target_mode = "gpu" THEN "cu128" ELSE "cpu")
        /\ installs[3].op = "install"
        /\ installs[3].pkg # "torch"

\* the two final destination names of a job on input
FinalNames(input) ==
    {dst_name(input, vocals_file(input)), dst_name(input, instrumental_file(input))}

\* C11: a job never removes or overwrites a file that already exists at a final
\* destination name: that file is still there with its content, and the new artifact
\* went to the lowest free " (n)" name, n >= 1.
C11_ExistingDestinationKept ==
    /\ \A f \in fs_before :
          f.name \in FinalNames(sep_input) /\ f.content = "old" => f \in fs
    /\ \A k \in 1..Len(finalized) :
          finalized[k].p \in finalized[k].present =>
              \E n \in 1..(MaxSuffix + 1) :
                  /\ finalized[k].dst = Numbered(finalized[k].p, n)
                  /\ finalized[k].dst \notin finalized[k].present
                  /\ \A m \in 1..(n - 1) :
                        Numbered(finalized[k].p, m) \in finalized[k].present

\* C12: the final name of an artifact is stem + " " + marker + ext, ext being the
\* extension of the file the library wrote, ".wav" when that file has none.
C12_OutputNameUsesLibraryExtension ==
    \A k \in 1..Len(finalized) :
        finalized[k].p =
            FileName("",
                     Append(clean_stem(sep_input.stem),
                            IF ContainsVocal(finalized[k].src) THEN " [vocals]"
                            ELSE " [instrumental]"),
                     IF finalized[k].src.ext = "" THEN ".wav" ELSE finalized[k].src.ext)

\* C13: when the job made a padded temp file, that file is gone once the job has
\* ended, whichever way it ended.
C13_TempFileGoneAtExit ==
    sep_pc \in {"returned", "reported"} /\ padded => ~Exists(fs, temp_name(sep_input))

\* C14: a job whose run failed is reported as an error by the UI worker, never as
\* a success.
C14_FailedRunReportedAsError ==
    sep_pc = "reported" /\ sep_result = "false" => ui_report = "error"

\* C15: once a job has ended, succeeded or failed, the accelerator memory of the
\* runtime has been released.
C15_AcceleratorReleasedAtExit ==
    sep_pc \in {"returned", "reported"} => accel = "free"

\* the place of a phase in Pending, Padding, Loading, Processing, Finalizing, end
Rank(ph) ==
    CASE ph = "pending" -> 1
      [] ph = "padding" -> 2
      [] ph = "loading" -> 3
      [] ph = "processing" -> 4
      [] ph = "finalizing" -> 5
      [] OTHER -> 6

Entered(ph) == \E k \in 1..Len(phases) : phases[k] = ph

C21_PhaseOrder ==
    /\ phases[1] = "pending"
    /\ \A k \in 1..(Len(phases) - 1) : Rank(phases[k]) < Rank(phases[k + 1])
    /\ Entered("processing") => Entered("loading")
    /\ Entered("finalizing") => Entered("processing")
    /\ Entered("succeeded") => Entered("finalizing")
    /\ sep_pc \in {"returned", "reported"} =>
          /\ sep_result = "true" => phases[Len(phases)] = "succeeded"
          /\ sep_result = "false" => phases[Len(phases)] = "failed"
          /\ sep_result \in {"true", "false"}
    /\ sep_pc \notin {"returned", "reported"} => ~Entered("succeeded") /\ ~Entered("failed")
    /\ \A k \in 1..Len(events) :
          events[k].stage = "processing" =>
              \E j \in 1..(k - 1) : events[j].stage = "loading"

C21_EventSteps ==
    (Entered("finalizing") \/ Entered("succeeded") \/ Entered("failed")) => events' = events

\* C21: a run goes through Pending, Padding (optional), Loading, Processing,
\* Finalizing in that order, entering none twice, and ends in exactly one of
\* Succeeded and Failed; the 'loading' event precedes every 'processing' event and
\* no event is emitted once finalizing has begun or the run has ended.
C21_PhasesAndEventsInOrder == [](C21_PhaseOrder) /\ [][C21_EventSteps]_vars

\* a padded run that succeeded, with a tqdm percentage reported on the way
C21_Witness ==
    /\ phases = <<"pending", "padding", "loading", "processing", "finalizing", "succeeded">>
    /\ Len(events) = 3
    /\ events[3].stage = "processing"
    /\ sep_result = "true"

\* C22: the model the job loads is the one the selector picks for the current
\* descriptor, and the fp16 and batch-size settings it runs with are the selector's
\* settings for that model and descriptor.
C22_JobUsesSelectedModelAndSettings ==
    loaded_model # "none" =>
        /\ loaded_model = get_active_model(hw_info)
        /\ run_settings = get_model_settings(get_active_model(hw_info), hw_info)

\* C23: with pydub, a temp file is made iff the input is shorter than 10 000 ms and
\* it is then 11 000 ms long, the original being left as it was; otherwise, and
\* without pydub, the original is the processing input, no temp file is made, and
\* the run does not fail at that point.
C23_PaddingIffShort ==
    /\ sep_pc = "load" =>
          /\ padded <=> (PYDUB_OK /\ duration < PadFloor)
          /\ AFile(sep_input, "input", duration) \in fs
          /\ padded =>
                /\ AFile(temp_name(sep_input), "padded", PadFloor + PadMargin) \in fs
                /\ processing_input = temp_name(sep_input)
                /\ fs \ {AFile(temp_name(sep_input), "padded", PadFloor + PadMargin)}
                      = fs_before
          /\ ~padded => fs = fs_before /\ processing_input = sep_input
    /\ ~PYDUB_OK /\ Entered("failed") => Entered("loading")

\* a 9 999 ms input padded to 11 000 ms
C23_Witness ==
    /\ sep_pc = "load"
    /\ duration = PadFloor - 1
    /\ padded
    /\ \E f \in fs : f.name = temp_name(sep_input) /\ f.dur = PadFloor + PadMargin

\* C24: when the job padded its input, every artifact at a final destination is no
\* longer than the original input.
C24_ArtifactsTrimmedToOriginal ==
    padded =>
        \A f \in fs :
            f.name \in FinalNames(sep_input) /\ f.content \in {"vocals", "instrumental"}
                => f.dur <= duration

C25_BackupKept ==
    \A f \in fs_before : f.name = backup_name(sep_input) => f \in fs

C25_BackupStep ==
    (/\ AFile(backup_name(sep_input), "input", duration) \in fs'
     /\ AFile(backup_name(sep_input), "input", duration) \notin fs)
        => /\ ~HasOriginalMark(sep_input.stem)
           /\ ~Exists(fs, backup_name(sep_input))
           /\ finalized = <<>>
           /\ \A f \in fs :
                 f.name \in FinalNames(sep_input) => f.content = "old"

\* C25: the original is renamed to "{stem} (original){ext}" only when its name has no
\* backup marker and nothing holds the backup name; a backup that exists is never
\* overwritten or removed; the rename comes before any artifact is moved.
C25_BackupOnlyWhenFreeAndFirst == [](C25_BackupKept) /\ [][C25_BackupStep]_vars

\* the original was backed up and both artifacts were moved after that
C25_Witness ==
    /\ sep_result = "true"
    /\ AFile(backup_name(sep_input), "input", duration) \in fs
    /\ Len(finalized) = 2

\* C26: after a failed job either no artifact is at a final name or all of them are,
\* and no earlier result was removed without being replaced.
C26_FailureLeavesAllOrNothing ==
    sep_result = "false" =>
        /\ finalized = <<>> \/ Len(finalized) = Len(output_files)
        /\ \A f \in fs_before :
              f.name \in FinalNames(sep_input) => Exists(fs, f.name)

\* the files of the directory that hold the content c
Holding(c) == {f \in fs : f.content = c}

\* the piece the code appends to the clean stem of a final name
HasMarker(f, marker) == f.name.stem # <<>> /\ f.name.stem[Len(f.name.stem)] = marker

\* C37: a job whose separate() call returned two output files that both exist, the
\* vocal stem and the instrumental stem, and that returned True, leaves two distinct
\* final files: the vocal stem under a "[vocals]" name and the instrumental stem under
\* an "[instrumental]" name, whatever the input file is called.
C37_TwoDistinctFinalFiles ==
    /\ sep_result = "true"
    /\ Len(output_files) = 2
    /\ Len(finalized) = 2
    => /\ finalized[1].dst # finalized[2].dst
       /\ \E f \in Holding("vocals") : HasMarker(f, " [vocals]")
       /\ \E f \in Holding("instrumental") : HasMarker(f, " [instrumental]")

\* the same for an input whose name does not contain "vocal"
TwoDistinctFinalFilesForPlainName ==
    /\ sep_result = "true"
    /\ Len(output_files) = 2
    /\ Len(finalized) = 2
    /\ ~ContainsVocal(sep_input)
    => /\ finalized[1].dst # finalized[2].dst
       /\ \E f \in Holding("vocals") : HasMarker(f, " [vocals]")
       /\ \E f \in Holding("instrumental") : HasMarker(f, " [instrumental]")

\* -------------------------------------------------------- claims (capture)
\* the percentages a scan of the texts ws reports, the last reported one being last:
\* the first marker of a text, when it differs from the last one reported
RECURSIVE Reported(_, _)
Reported(ws, last) ==
    IF ws = <<>> THEN <<>>
    ELSE IF Head(ws).markers # <<>> /\ Head(ws).markers[1] # last
         THEN <<Head(ws).markers[1]>> \o Reported(Tail(ws), Head(ws).markers[1])
         ELSE Reported(Tail(ws), last)

WithMarker(ws) == {i \in 1..Len(ws) : ws[i].markers # <<>>}

\* C31: with a callback installed, a write calls it exactly when the text has a
\* marker whose number differs from the last one reported: no two consecutive calls
\* carry the same percentage, a text without a marker calls nothing, and the first
\* marker written is always reported.
C31_EventIffPercentChanged ==
    /\ capture.callback => capture.called = Reported(cap_written, NoPercent)
    /\ \A k \in 1..(Len(capture.called) - 1) : capture.called[k] # capture.called[k + 1]
    /\ WithMarker(cap_written) = {} => capture.called = <<>>
    /\ capture.callback /\ WithMarker(cap_written) # {} =>
           /\ capture.called # <<>>
           /\ \E i \in WithMarker(cap_written) :
                 /\ \A j \in WithMarker(cap_written) : i <= j
                 /\ capture.called[1] = cap_written[i].markers[1]

\* three texts were written, one without a marker and two with the same
\* percentage, and the callback was called once
C31_Witness ==
    /\ capture.callback
    /\ Len(cap_written) = 3
    /\ Cardinality(WithMarker(cap_written)) = 2
    /\ Len(capture.called) = 1

\* C32: every text written is forwarded to the original stderr, unchanged and in
\* write order, with or without a marker, a callback, or a callback call.
C32_EveryWriteForwarded == capture.sink = cap_written

\* no callback is installed, and a blank text and a text with a marker were forwarded
C32_Witness ==
    /\ ~capture.callback
    /\ \E i, j \in 1..Len(capture.sink) :
          capture.sink[i].blank /\ capture.sink[j].markers # <<>>

\* ------------------------------------------------------- claims (download)
\* C16: in a video download a parsed percentage goes to the video bar when one
\* destination announcement has been seen and to the audio bar when two or more
\* have; in an audio download every parsed percentage goes to the audio bar.
C16_PercentRoutedByDestinationCount ==
    \A k \in 1..Len(bars) :
        bars[k].parsed =>
            /\ download_mode = "video" /\ bars[k].count = 1 => bars[k].bar = "video-bar"
            /\ download_mode = "video" /\ bars[k].count >= 2 => bars[k].bar = "audio-bar"
            /\ download_mode = "audio" => bars[k].bar = "audio-bar"

\* the same percentage went to the video bar after the first announcement and to
\* the audio bar after the second
C16_Witness ==
    \E j, k \in 1..Len(bars) :
        /\ j < k
        /\ bars[j].parsed /\ bars[k].parsed
        /\ bars[j].pct = bars[k].pct
        /\ bars[j].count = 1 /\ bars[j].bar = "video-bar"
        /\ bars[k].count = 2 /\ bars[k].bar = "audio-bar"

\* C29: no two consecutive parsed percentages sent to the same bar are equal.
C29_NoRepeatedPercentPerStream ==
    \A j, k \in 1..Len(bars) :
        /\ j < k
        /\ bars[j].parsed /\ bars[k].parsed
        /\ bars[j].bar = bars[k].bar
        /\ \A i \in (j + 1)..(k - 1) : ~(bars[i].parsed /\ bars[i].bar = bars[j].bar)
        => bars[j].pct # bars[k].pct

\* every carriage-return read as a line-feed
AsLineFeeds(s) == [i \in 1..Len(s) |-> IF s[i] = CR THEN LF ELSE s[i]]

\* the non-empty segments of s that a line-feed ends, in order
RECURSIVE Segments(_, _, _)
Segments(s, cur, acc) ==
    IF s = <<>> THEN acc
    ELSE IF Head(s) = LF
         THEN Segments(Tail(s), <<>>, IF cur = <<>> THEN acc ELSE Append(acc, cur))
         ELSE Segments(Tail(s), Append(cur, Head(s)), acc)

RECURSIVE PercentsOf(_)
PercentsOf(ls) ==
    IF ls = <<>> THEN <<>>
    ELSE (IF decode(Head(ls)).pct = <<>> THEN <<>> ELSE <<float(decode(Head(ls)).pct[1])>>)
         \o PercentsOf(Tail(ls))

RECURSIVE ParsedPercents(_)
ParsedPercents(bs) ==
    IF bs = <<>> THEN <<>>
    ELSE (IF Head(bs).parsed THEN <<Head(bs).pct>> ELSE <<>>) \o ParsedPercents(Tail(bs))

C33_PercentIsIntegerInRange ==
    \A k \in 1..Len(bars) :
        /\ bars[k].pct.tenths = 0
        /\ bars[k].pct.units \in -1..100

\* ---------------------------------------------------------- claims (probe)
\* C17: between two invalidations detection runs at most once, also when several
\* threads probe while the cache is empty, and every caller gets the same
\* descriptor.
C17_DetectionAtMostOncePerWindow ==
    /\ detections <= 1
    /\ Cardinality(p_seen) <= 1

\* C27: a reader never observes a descriptor that mixes fields of two detections:
\* when get_suggested_setup answers "gpu" with a device name, one detection found
\* both the nvidia device kind and that name.
C27_ReaderSeesOneDetection ==
    \A v \in p_views :
        v.kind = "gpu" =>
            \E f \in p_found : f.found.gpu_type = "nvidia" /\ f.found.gpu_name = v.name

\* --------------------------------------------------------- claims (detect)
RuntimeReports(e) == e.torch /\ e.cuda_build /\ e.nvgpu
VendorNames(e) == e.nvgpu
TierAtLeast(e, major, minor) == e.sm[1] > major \/ (e.sm[1] = major /\ e.sm[2] >= minor)
KindAndFlags(found) ==
    <<found.gpu_type, found.hw_info.gpu_type, found.hw_info.fp16_capable,
      found.hw_info.fp8_capable>>

\* C28: every detection gives the descriptor the inputs determine: forced CPU gives
\* a cpu descriptor and consults no GPU probe; else a device reported by the runtime
\* gives a gpu descriptor with fp16 = tier >= (7,0) and fp8 = tier >= (8,9), compared
\* on major first and minor second; else a device named by the vendor command gives
\* a gpu descriptor with both flags false; else a cpu descriptor.
C28_DescriptorIsFunctionOfProbes ==
    \A f \in p_found :
        IF f.force_cpu
        THEN KindAndFlags(f.found) = <<"cpu", "cpu", FALSE, FALSE>> /\ f.probes = {}
        ELSE IF RuntimeReports(f.env)
        THEN KindAndFlags(f.found) =
                 <<"nvidia", "nvidia", TierAtLeast(f.env, 7, 0), TierAtLeast(f.env, 8, 9)>>
        ELSE IF VendorNames(f.env)
        THEN KindAndFlags(f.found) = <<"nvidia", "nvidia", FALSE, FALSE>>
        ELSE KindAndFlags(f.found) = <<"cpu", "cpu", FALSE, FALSE>>

\* a tier (9,0) device was detected as fp8 capable, and the same machine was
\* detected as a cpu while the config forced the CPU
C28_Witness ==
    /\ \E f \in p_found :
          ~f.force_cpu /\ f.env.sm = <<9, 0>> /\ f.found.hw_info.fp8_capable
    /\ \E f \in p_found : f.force_cpu /\ f.env.nvgpu /\ f.found.gpu_type = "cpu"

====
